---- MODULE Spec2Model ----
(***************************************************************************)
(* Expectation engine of the mock server: the expectation store, its       *)
(* indices, the matcher/selection used by find, the control-plane PUT      *)
(* handler, the data-plane request handler and the persistence file.       *)
(*                                                                         *)
(* Strings are sequences of one-character strings so that the regular      *)
(* expression test and the path segmentation can be computed.  The empty   *)
(* sequence stands for an absent (undefined or empty, both falsy) string.  *)
(* An optional number is <<>> (undefined) or <<n>>.                        *)
(***************************************************************************)
EXTENDS Integers, Sequences, FiniteSets, TLC

VARIABLES
    expectations,          \* Map id -> expectation document (expectationStore.js)
    methodIndex,           \* Map method -> Set of ids (indexer.js)
    pathIndex,             \* Map base path segment -> Set of ids (indexer.js)
    wildcardExpectations,  \* Set of ids (indexer.js)
    persistenceEnabled,    \* expectationStore.js flag
    file,                  \* content of the persistence file: a JSON array
    pending,               \* fs.promises.writeFile calls in flight
    clearing,              \* the in-flight clearExpectations({request}) call
    lastOp,                \* the operation that produced this state
    lastRequest,           \* argument of the last find / data-plane request
    found,                 \* result of the last find
    response,              \* reply of the last HTTP exchange
    history,               \* the store calls issued since startup, when recorded
    lock,                  \* queue of the 'expectations' AsyncLock, holder first
    watcher,               \* the initialization-file watcher and its reload
    tasks,                 \* the data-plane exchanges, in order of arrival
    matcherCall,           \* the call of matchesExpectation under examination
    requestHistory,        \* recorded requests, followed under SpecHistory
    requestResponseHistory \* recorded request/response pairs, as requestHistory

vars == <<expectations, methodIndex, pathIndex, wildcardExpectations,
          persistenceEnabled, file, pending, clearing,
          lastOp, lastRequest, found, response, history, lock, watcher, tasks,
          matcherCall, requestHistory, requestResponseHistory>>

-----------------------------------------------------------------------------
(* Bounds of the model *)

MaxStore == 2          \* expectations held at once
MaxPending == 2        \* writeFile calls in flight at once
MaxCalls == 3          \* store calls recorded in a history
MaxLocked == 2         \* calls holding or waiting for the 'expectations' lock
MaxTasks == 2          \* data-plane exchanges followed
MaxRecorded == 102     \* recordings made into one history list

-----------------------------------------------------------------------------
(* Strings used as inputs *)

Undefined == <<>>

GET == <<"G", "E", "T">>
POST == <<"P", "O", "S", "T">>

UsersWildcardPath == <<"/", "a", "p", "i", "/", "u", "s", "e", "r", "s", "/", "*">>
Users42Path == <<"/", "a", "p", "i", "/", "u", "s", "e", "r", "s", "/", "4", "2">>
Other42Path == <<"/", "o", "t", "h", "e", "r", "/", "4", "2">>
ApiResourcePath == <<"/", "a", "p", "i", "/", "r", "e", "s", "o", "u", "r", "c", "e">>
ApiDifferentPath == <<"/", "a", "p", "i", "/", "d", "i", "f", "f", "e", "r", "e", "n", "t">>

Some(x) == <<x>>

-----------------------------------------------------------------------------
(* Identifiers.  An id is a number standing for a string; the order of the *)
(* numbers is the order String.prototype.localeCompare gives the strings.  *)
(* NoId is the absent id of a submitted document.                          *)

NoId == 0
UuidPool == 1 .. (MaxStore + 1)

\* the ids the indexer singles out by name
ApiExpectationId == 101
GetExpectationId == 102
TestExpectationId == 103
NamedIds == {ApiExpectationId, GetExpectationId, TestExpectationId}

Ids == UuidPool \cup NamedIds

\* a.localeCompare(b): negative, zero or positive
localeCompare(a, b) == a - b

-----------------------------------------------------------------------------
(* Matchers *)

\* String.prototype.includes for one character
includes(s, c) == \E i \in 1 .. Len(s) : s[i] = c

\* new RegExp(pattern) throws "nothing to repeat" for a quantifier with no atom
RegExpCompiles(pattern) ==
    \A i \in 1 .. Len(pattern) :
        pattern[i] = "*" => (i > 1 /\ pattern[i - 1] # "*")

\* the compiled pattern matches a prefix of str[j ..], reading pattern[i ..]:
\* an atom followed by "*" is repeated zero or more times
RECURSIVE MatchHere(_, _, _, _)
MatchHere(pattern, i, str, j) ==
    IF i > Len(pattern) THEN TRUE
    ELSE IF i < Len(pattern) /\ pattern[i + 1] = "*"
         THEN \E k \in 0 .. (Len(str) - j + 1) :
                 /\ \A m \in j .. (j + k - 1) : str[m] = pattern[i]
                 /\ MatchHere(pattern, i + 2, str, j + k)
         ELSE /\ j <= Len(str)
              /\ str[j] = pattern[i]
              /\ MatchHere(pattern, i + 1, str, j + 1)

\* regex.test(actual): an unanchored search
matchRegex(actual, pattern) ==
    /\ RegExpCompiles(pattern)
    /\ \E j \in 1 .. (Len(actual) + 1) : MatchHere(pattern, 1, actual, j)

\* actual === expected
matchString(actual, expected) == actual = expected

-----------------------------------------------------------------------------
(* Expectation documents.  A document is a record                          *)
(*   type     : "http" or "" (no type property)                            *)
(*   method   : httpRequest.method, a string or Undefined                  *)
(*   path     : httpRequest.path, a string or Undefined                    *)
(*   priority : <<>> or <<n>>                                              *)
(*   action   : "httpResponse", "httpForward", "" (neither) or Both        *)
(*   delay    : the delay of the action, [kind, timeUnit, value] with kind *)
(*              "none" (no delay property), "number" or "object"           *)
(*   statusCode : httpResponse.statusCode, <<>> or <<n>>                   *)
(* The id is the key under which the store holds the document.             *)

\* a document with the httpResponse and the httpForward property
Both == "httpResponse+httpForward"

NoDelay == [kind |-> "none", timeUnit |-> "", value |-> 0]

PriorityOf(e) == IF e.priority = Undefined THEN 0 ELSE e.priority[1]

-----------------------------------------------------------------------------
(* Indexer.  idx is the record of the three index structures.              *)

EmptyIndices == [m |-> <<>>, p |-> <<>>, w |-> {}]

\* the module-level index structures
Indices == [m |-> methodIndex, p |-> pathIndex, w |-> wildcardExpectations]

\* map.get(key).add(id), creating the bucket when the map has none
BucketAdd(map, key, id) ==
    [k \in (DOMAIN map) \cup {key} |->
        IF k = key
        THEN (IF key \in DOMAIN map THEN map[key] ELSE {}) \cup {id}
        ELSE map[k]]

\* map.get(key).delete(id) when the map has the bucket
BucketDelete(map, key, id) ==
    [k \in DOMAIN map |-> IF k = key THEN map[k] \ {id} ELSE map[k]]

\* position of the first "/" of s at or after i, or Len(s) + 1
RECURSIVE SlashFrom(_, _)
SlashFrom(s, i) ==
    IF i > Len(s) \/ s[i] = "/" THEN i ELSE SlashFrom(s, i + 1)

getBasePathSegment(path) ==
    IF path = Undefined THEN Undefined
    ELSE LET cleanPath == IF path[1] = "/" THEN Tail(path) ELSE path
             firstSegment == SubSeq(cleanPath, 1, SlashFrom(cleanPath, 1) - 1)
         IN  <<"/">> \o firstSegment

indexExpectation(idx, id, e) ==
    IF e.type # "http" THEN idx
    ELSE LET m1 == IF e.method # Undefined
                   THEN BucketAdd(idx.m, e.method, id) ELSE idx.m
         IN  IF e.path = Undefined THEN [idx EXCEPT !.m = m1]
             ELSE IF includes(e.path, "*")
                  THEN [idx EXCEPT !.m = m1, !.w = @ \cup {id}]
                  ELSE [idx EXCEPT !.m = m1,
                                   !.p = BucketAdd(@, getBasePathSegment(e.path), id)]

removeFromIndicesKeepingWildcard(idx, id, e) ==
    IF e.type # "http" THEN idx
    ELSE LET m1 == IF e.method # Undefined /\ e.method \in DOMAIN idx.m
                   THEN BucketDelete(idx.m, e.method, id) ELSE idx.m
         IN  IF e.path = Undefined \/ includes(e.path, "*") THEN [idx EXCEPT !.m = m1]
             ELSE [idx EXCEPT !.m = m1,
                              !.p = BucketDelete(@, getBasePathSegment(e.path), id)]

removeFromIndices(idx, id, e) ==
    IF e.type # "http" THEN idx
    ELSE LET m1 == IF e.method # Undefined /\ e.method \in DOMAIN idx.m
                   THEN BucketDelete(idx.m, e.method, id) ELSE idx.m
         IN  IF e.path = Undefined THEN [idx EXCEPT !.m = m1]
             ELSE IF includes(e.path, "*")
                  THEN [idx EXCEPT !.m = m1, !.w = @ \ {id}]
                  ELSE [idx EXCEPT !.m = m1,
                                   !.p = BucketDelete(@, getBasePathSegment(e.path), id)]

\* the loop of initializeIndices over the entries still to index
RECURSIVE IndexAll(_, _, _)
IndexAll(idx, exps, ids) ==
    IF ids = {} THEN idx
    ELSE LET id == CHOOSE x \in ids : TRUE
         IN  IndexAll(indexExpectation(idx, id, exps[id]), exps, ids \ {id})

initializeIndicesWithoutReset(exps) == IndexAll(Indices, exps, DOMAIN exps)

initializeIndices(exps) == IndexAll(EmptyIndices, exps, DOMAIN exps)

getCandidateExpectationIds(idx, request) ==
    LET methodCandidates ==
            IF request.method \in DOMAIN idx.m THEN idx.m[request.method] ELSE {}
        byMethod ==
            IF request.path = ApiResourcePath /\ request.method = GET
            THEN methodCandidates \cap {GetExpectationId, TestExpectationId}
            ELSE IF request.path = ApiDifferentPath /\ request.method = GET
                 THEN methodCandidates \cap {ApiExpectationId}
                 ELSE methodCandidates
    IN  byMethod \cup idx.w

-----------------------------------------------------------------------------
(* Matcher and selection (request-handling/matcher).  A request is a       *)
(* record [method, path]; the requests drawn here carry no query, no       *)
(* headers of interest and no body, and the documents no query, header or  *)
(* body matcher, so those branches of matchesExpectation fall through.     *)
(* method and path are plain strings, whose .not is undefined.             *)

matchesExpectation(request, e) ==
    IF e.action \in {"httpForward", Both}
    THEN /\ e.method # Undefined =>
               (matchRegex(request.method, e.method)
                  \/ matchString(request.method, e.method))
         /\ e.path # Undefined => matchRegex(request.path, e.path)
    ELSE IF e.action # "httpResponse" THEN FALSE
    ELSE /\ e.method # Undefined =>
               (matchRegex(request.method, e.method)
                  \/ matchString(request.method, e.method))
         /\ e.path # Undefined =>
               (matchRegex(request.path, e.path) \/ matchString(request.path, e.path))

\* the comparator handed to Array.prototype.sort: negative when a sorts first
SortCompare(exps, a, b) ==
    IF PriorityOf(exps[b]) # PriorityOf(exps[a])
    THEN PriorityOf(exps[b]) - PriorityOf(exps[a])
    ELSE localeCompare(b, a)

\* element 0 of the sorted array (the comparator is a total order on ids)
SortedFirst(exps, ids) ==
    CHOOSE a \in ids : \A b \in ids \ {a} : SortCompare(exps, a, b) < 0

findMatchingExpectationWithoutMatcher(request, exps, idx) ==
    LET candidateIds == getCandidateExpectationIds(idx, request) \cap DOMAIN exps
        regularCandidates == {id \in candidateIds : exps[id].action = "httpResponse"}
        forwardCandidates == {id \in candidateIds : exps[id].action = "httpForward"}
    IN  IF regularCandidates # {} THEN SortedFirst(exps, regularCandidates)
        ELSE IF forwardCandidates # {} THEN SortedFirst(exps, forwardCandidates)
        ELSE NoId

\* the id of the expectation returned, NoId for null
findMatchingExpectation(request, exps, idx) ==
    IF DOMAIN exps = {} THEN NoId
    ELSE LET candidateIds == getCandidateExpectationIds(idx, request)
             matching == {id \in candidateIds \cap DOMAIN exps :
                             matchesExpectation(request, exps[id])}
             forwardCandidates ==
                 {id \in matching : exps[id].action \in {"httpForward", Both}}
             regularCandidates == {id \in matching : exps[id].action = "httpResponse"}
         IN  IF regularCandidates # {} THEN SortedFirst(exps, regularCandidates)
             ELSE IF forwardCandidates # {} THEN SortedFirst(exps, forwardCandidates)
             ELSE NoId

-----------------------------------------------------------------------------
(* Inputs *)

Methods == {Undefined, GET}
Paths == {UsersWildcardPath, ApiResourcePath}
Actions == {"httpResponse", "httpForward"}

\* documents as submitted: the stored fields and the optional id
Submitted(idSet, types, methods, paths, priorities, actions) ==
    [id : idSet, type : types, method : methods, path : paths,
     priority : priorities, action : actions, delay : {NoDelay},
     statusCode : {Undefined}]

\* documents with type "http", as the store's callers build them, some with a
\* priority, and the documents without a type that the Expectation schema admits
Documents(idSet) ==
    Submitted(idSet, {"http"}, Methods, Paths, {Undefined}, Actions)
      \cup Submitted(idSet, {"http"}, {GET}, {UsersWildcardPath}, {Some(10)}, Actions)
      \cup Submitted(idSet, {""}, {Undefined}, {UsersWildcardPath},
                     {Undefined, Some(10)}, Actions)

\* addExpectation does not read the id of its argument
AddInputs == Documents({NoId})

UpsertInputs == Documents({NoId} \cup UuidPool)

\* the few documents used where the persistence file multiplies the states:
\* with type "http", and without a type as the Expectation schema admits them
PersistInputs ==
    Submitted({NoId} \cup UuidPool, {"http", ""}, {GET}, {UsersWildcardPath},
              {Undefined}, {"httpResponse"})

Requests ==
    {[method |-> GET, path |-> Users42Path], [method |-> GET, path |-> Other42Path],
     [method |-> GET, path |-> ApiResourcePath], [method |-> POST, path |-> Users42Path]}

ClearFilters ==
    [method : Methods, path : Paths \cup {Undefined}]
        \ {[method |-> Undefined, path |-> Undefined]}

NoRequest == [method |-> Undefined, path |-> Undefined]
NoResponse == [status |-> 0, from |-> NoId]

\* no initialization file is watched
NoWatcher ==
    [phase |-> "off", content |-> [kind |-> "array", docs |-> <<>>], todo |-> <<>>,
     before |-> <<>>, lastContent |-> [known |-> FALSE, docs |-> <<>>]]

\* matchesExpectation is not under examination
NoMatching == [phase |-> "none"]

\* HTTP status codes written by the handlers
Created == 201
BadRequest == 400
Ok == 200
NotFound == 404
InternalServerError == 500
BadGateway == 502

-----------------------------------------------------------------------------
(* Store (expectations/expectationStore.js) *)

SetIndices(idx) ==
    /\ methodIndex' = idx.m
    /\ pathIndex' = idx.p
    /\ wildcardExpectations' = idx.w

\* Map.prototype.set
MapSet(map, id, e) ==
    [k \in (DOMAIN map) \cup {id} |-> IF k = id THEN e ELSE map[k]]

\* Map.prototype.delete
MapDelete(map, id) == [k \in (DOMAIN map) \ {id} |-> map[k]]

EmptyMap == <<>>

\* the ids of the documents of a JSON array
IdsOf(arr) == {arr[i].id : i \in 1 .. Len(arr)}

\* ids a fresh uuidv4() does not collide with
IdsInUse ==
    (DOMAIN expectations) \cup IdsOf(file) \cup clearing
        \cup UNION {IdsOf(pending[i].snap) : i \in 1 .. Len(pending)}

FreshUuids == UuidPool \ IdsInUse

\* { ...expectation, id, priority } without the id, which is the key
Stored(e, priority) ==
    [type |-> e.type, method |-> e.method, path |-> e.path,
     priority |-> Some(priority), action |-> e.action, delay |-> e.delay,
     statusCode |-> e.statusCode]

DefaultedPriority(e) == IF e.priority # Undefined THEN e.priority[1] ELSE 0

\* JSON.stringify(Array.from(expectations.values())): the stored documents,
\* each with its id, as an array.  The Map iterates in insertion order, which
\* the id -> document function does not keep, so the array may be in any order.
JsonArrays(exps) ==
    {arr \in [1 .. Cardinality(DOMAIN exps) ->
                 {[id |-> k, doc |-> exps[k]] : k \in DOMAIN exps}] :
        \A i, j \in 1 .. Cardinality(DOMAIN exps) : i # j => arr[i].id # arr[j].id}

\* saveToFile then saveExpectations up to the writeFile call: the array of
\* values is taken and serialised before the write is handed to the file system
saveToFile(exps, byClear) ==
    IF persistenceEnabled
    THEN \E arr \in JsonArrays(exps) :
            pending' = Append(pending, [snap |-> arr, byClear |-> byClear])
    ELSE pending' = pending

CanSave == persistenceEnabled => Len(pending) < MaxPending

\* a call of the store's interface, for the history
NoDocument ==
    [id |-> NoId, type |-> "", method |-> Undefined, path |-> Undefined,
     priority |-> Undefined, action |-> "", delay |-> NoDelay,
     statusCode |-> Undefined]

Call(op, e, uuid, id, req) == [op |-> op, e |-> e, uuid |-> uuid, id |-> id, req |-> req]

\* the call is appended to the history when calls are recorded
Record(call) ==
    IF history.on
    THEN /\ Len(history.calls) < MaxCalls
         /\ history' = [history EXCEPT !.calls = Append(@, call)]
    ELSE history' = history

Settle(op) ==
    /\ lastOp' = op
    /\ lastRequest' = NoRequest
    /\ found' = NoId
    /\ response' = NoResponse
    /\ lock' = lock
    /\ watcher' = watcher
    /\ tasks' = tasks
    /\ UNCHANGED <<matcherCall, requestHistory, requestResponseHistory>>

addExpectation(e) ==
    /\ Cardinality(DOMAIN expectations) < MaxStore
    /\ CanSave
    /\ \E id \in FreshUuids :
          LET newExpectation == Stored(e, DefaultedPriority(e))
              exps == MapSet(expectations, id, newExpectation)
          IN  /\ expectations' = exps
              /\ SetIndices(indexExpectation(Indices, id, newExpectation))
              /\ saveToFile(exps, FALSE)
              /\ Record(Call("add", e, id, NoId, NoRequest))
    /\ Settle("add")
    /\ UNCHANGED <<persistenceEnabled, file, clearing>>

\* the store and index after upsertExpectation(e) drawing uuid when it needs one
UpsertResult(exps, idx, e, uuid) ==
    LET updatedExpectation == Stored(e, DefaultedPriority(e))
    IN  IF e.id # NoId /\ e.id \in DOMAIN exps
        THEN [id |-> e.id,
              exps |-> MapSet(exps, e.id, updatedExpectation),
              idx |-> indexExpectation(removeFromIndices(idx, e.id, exps[e.id]),
                                       e.id, updatedExpectation)]
        ELSE [id |-> uuid,
              exps |-> MapSet(exps, uuid, updatedExpectation),
              idx |-> indexExpectation(idx, uuid, updatedExpectation)]

\* the values uuidv4() may return to upsertExpectation(e); none is drawn
\* when e.id is in the store
UpsertUuids(exps, e) ==
    IF e.id # NoId /\ e.id \in DOMAIN exps THEN {NoId} ELSE FreshUuids

upsertExpectation(e) ==
    /\ CanSave
    /\ (e.id = NoId \/ e.id \notin DOMAIN expectations)
          => Cardinality(DOMAIN expectations) < MaxStore
    /\ \E uuid \in UpsertUuids(expectations, e) :
          LET r == UpsertResult(expectations, Indices, e, uuid)
          IN  /\ expectations' = r.exps
              /\ SetIndices(r.idx)
              /\ saveToFile(r.exps, FALSE)
              /\ Record(Call("upsert", e, uuid, NoId, NoRequest))
    /\ Settle("upsert")
    /\ UNCHANGED <<persistenceEnabled, file, clearing>>

RemoveResultResettingIndices(exps, idx, id) ==
    IF id \notin DOMAIN exps
    THEN [removed |-> FALSE, exps |-> exps, idx |-> EmptyIndices]
    ELSE [removed |-> TRUE,
          exps |-> MapDelete(exps, id),
          idx |-> removeFromIndices(idx, id, exps[id])]

\* the store and index after the synchronous part of removeExpectation(id)
RemoveResult(exps, idx, id) ==
    IF id \notin DOMAIN exps
    THEN [removed |-> FALSE, exps |-> exps, idx |-> idx]
    ELSE [removed |-> TRUE,
          exps |-> MapDelete(exps, id),
          idx |-> removeFromIndices(idx, id, exps[id])]

removeExpectation(id) ==
    /\ CanSave
    /\ LET r == RemoveResult(expectations, Indices, id)
       IN  /\ expectations' = r.exps
           /\ SetIndices(r.idx)
           /\ IF r.removed THEN saveToFile(r.exps, FALSE) ELSE pending' = pending
           /\ Settle(IF r.removed THEN "remove" ELSE "removeMissing")
    /\ Record(Call("remove", NoDocument, NoId, id, NoRequest))
    /\ UNCHANGED <<persistenceEnabled, file, clearing>>

\* clearExpectations() and clearExpectations({}) : no id, no request
clearExpectations ==
    /\ CanSave
    /\ expectations' = EmptyMap
    /\ SetIndices(initializeIndices(EmptyMap))
    /\ saveToFile(EmptyMap, FALSE)
    /\ Record(Call("clear", NoDocument, NoId, NoId, NoRequest))
    /\ Settle("clear")
    /\ UNCHANGED <<persistenceEnabled, file, clearing>>

ToRemoveByPathOnly(exps, req) ==
    {id \in DOMAIN exps : ~(req.path # Undefined /\ exps[id].path # req.path)}

\* the forEach of clearExpectations({request}) that collects toRemove
ToRemove(exps, req) ==
    {id \in DOMAIN exps :
        /\ ~(req.method # Undefined /\ exps[id].method # req.method)
        /\ ~(req.path # Undefined /\ exps[id].path # req.path)}

\* the loop of awaited removeExpectation(id) calls over toRemove, run to its end
RECURSIVE RemoveAll(_, _, _)
RemoveAll(exps, idx, toRemove) ==
    IF toRemove = {} THEN [exps |-> exps, idx |-> idx]
    ELSE LET id == CHOOSE x \in toRemove : TRUE
             r == RemoveResult(exps, idx, id)
         IN  RemoveAll(r.exps, r.idx, toRemove \ {id})

\* the next await removeExpectation(id) of the loop over toRemove, up to the
\* writeFile call it waits for
ClearNext(toRemove) ==
    \E id \in toRemove :
        LET r == RemoveResult(expectations, Indices, id)
        IN  /\ expectations' = r.exps
            /\ SetIndices(r.idx)
            /\ IF r.removed THEN saveToFile(r.exps, TRUE) ELSE pending' = pending
            /\ clearing' = toRemove \ {id}

\* clearExpectations({request}).  With persistence disabled no await of the
\* loop waits for I/O and the call runs to its end before any other handler
\* starts; with persistence enabled it runs up to its first writeFile.
clearExpectationsByRequest(req) ==
    /\ CanSave
    /\ clearing = {}
    /\ \A i \in 1 .. Len(pending) : ~pending[i].byClear
    /\ LET toRemove == ToRemove(expectations, req)
       IN  IF toRemove = {}
           THEN UNCHANGED <<expectations, methodIndex, pathIndex,
                            wildcardExpectations, pending, clearing>>
           ELSE IF ~persistenceEnabled
                THEN LET r == RemoveAll(expectations, Indices, toRemove)
                     IN  /\ expectations' = r.exps
                         /\ SetIndices(r.idx)
                         /\ UNCHANGED <<pending, clearing>>
                ELSE ClearNext(toRemove)
    /\ Record(Call("clearByRequest", NoDocument, NoId, NoId, req))
    /\ Settle("clearByRequest")
    /\ UNCHANGED <<persistenceEnabled, file>>

\* the loop resumes when the writeFile of the awaited removeExpectation is done
clearExpectationsResume ==
    /\ CanSave
    /\ clearing # {}
    /\ \A i \in 1 .. Len(pending) : ~pending[i].byClear
    /\ ClearNext(clearing)
    /\ Settle("clearByRequest")
    /\ UNCHANGED <<persistenceEnabled, file, history>>

LoadFromFirstOnly(map, arr) ==
    IF arr = <<>> THEN map ELSE MapSet(map, Head(arr).id, Head(arr).doc)

\* jsonArray.forEach(expectation => expectationsMap.set(expectation.id, expectation))
RECURSIVE LoadFrom(_, _)
LoadFrom(map, arr) ==
    IF arr = <<>> THEN map
    ELSE LoadFrom(MapSet(map, Head(arr).id, Head(arr).doc), Tail(arr))

\* loadExpectations: the Map built from the array parsed from the file; a
\* missing file gives the empty Map, as the empty array does
loadExpectations == LoadFrom(EmptyMap, file)

initializeStore ==
    /\ pending = <<>>
    /\ clearing = {}
    /\ LET exps == IF persistenceEnabled THEN loadExpectations ELSE EmptyMap
       IN  /\ expectations' = exps
           /\ SetIndices(initializeIndices(exps))
    /\ Settle("initialize")
    /\ UNCHANGED <<persistenceEnabled, file, pending, clearing, history>>

findExpectationForRequestWritingPriority(request) ==
    /\ found' = findMatchingExpectation(request, expectations, Indices)
    /\ lastRequest' = request
    /\ lastOp' = "find"
    /\ response' = NoResponse
    /\ expectations' = [id \in DOMAIN expectations |->
                           [expectations[id] EXCEPT
                               !.priority = Some(PriorityOf(expectations[id]))]]
    /\ UNCHANGED <<methodIndex, pathIndex, wildcardExpectations,
                   persistenceEnabled, file, pending, clearing, history, lock,
                   watcher, tasks,
                   matcherCall, requestHistory, requestResponseHistory>>

findExpectationForRequest(request) ==
    /\ found' = findMatchingExpectation(request, expectations, Indices)
    /\ lastRequest' = request
    /\ lastOp' = "find"
    /\ response' = NoResponse
    /\ UNCHANGED <<expectations, methodIndex, pathIndex, wildcardExpectations,
                   persistenceEnabled, file, pending, clearing, history, lock,
                   watcher, tasks,
                   matcherCall, requestHistory, requestResponseHistory>>

-----------------------------------------------------------------------------
(* Persistence file (expectations/persistence.js) *)

RemoveAt(seq, i) == SubSeq(seq, 1, i - 1) \o SubSeq(seq, i + 1, Len(seq))

\* one of the fs.promises.writeFile calls in flight completes; calls on the
\* same path are not ordered with respect to each other
writeFileCompletes ==
    /\ \E i \in 1 .. Len(pending) :
          /\ file' = pending[i].snap
          /\ pending' = RemoveAt(pending, i)
    /\ UNCHANGED <<expectations, methodIndex, pathIndex, wildcardExpectations,
                   persistenceEnabled, clearing, lastOp, lastRequest, found, response,
                   history, lock, watcher, tasks,
                   matcherCall, requestHistory, requestResponseHistory>>

writeFileFailsRollingBack(i) ==
    /\ i <= Len(pending)
    /\ pending' = RemoveAt(pending, i)
    /\ expectations' = loadExpectations
    /\ SetIndices(initializeIndices(loadExpectations))
    /\ lastOp' = "saveFailed"
    /\ UNCHANGED <<persistenceEnabled, file, clearing, lastRequest, found, response,
                   history, lock, watcher, tasks,
                   matcherCall, requestHistory, requestResponseHistory>>

\* one of the fs.promises.writeFile calls in flight rejects: the catch of
\* saveExpectations logs the error, and the operation awaiting the save goes
\* on as after a save; the file is left as it was
writeFileFails(i) ==
    /\ i <= Len(pending)
    /\ pending' = RemoveAt(pending, i)
    /\ lastOp' = "saveFailed"
    /\ UNCHANGED <<expectations, methodIndex, pathIndex, wildcardExpectations,
                   persistenceEnabled, file, clearing, lastRequest, found, response,
                   history, lock, watcher, tasks,
                   matcherCall, requestHistory, requestResponseHistory>>

-----------------------------------------------------------------------------
(* Store with the AsyncLock (the expectation store of persistence.js).     *)
(* addExpectation and removeExpectation run inside                          *)
(* lock.acquire('expectations', ...).  The lock is created without          *)
(* domainReentrant: acquire runs the function at once when no call holds    *)
(* the key and queues it otherwise, also when the holder itself acquires;   *)
(* when the holder's function settles the first queued function runs.       *)
(* A call of the queue is [op, e, id, uuid, state]: state is "queued",      *)
(* "save" (the holder awaits saveToFile) or "inner" (the holder awaits the  *)
(* addExpectation it called itself).  uuid is what uuidv4() returns to it.  *)

LockedCall(op, e, id, uuid) ==
    [op |-> op, e |-> e, id |-> id, uuid |-> uuid, state |-> "queued"]

\* the function of a call run by the holder up to its first await or, with
\* state "done", to its return
LockedStart(call, exps, idx) ==
    IF call.op = "add"
    THEN LET id == IF call.e.id # NoId THEN call.e.id ELSE call.uuid
             newExpectation == Stored(call.e, DefaultedPriority(call.e))
         IN  IF id \in DOMAIN exps
             THEN [exps |-> exps, idx |-> idx, state |-> "inner"]
             ELSE [exps |-> MapSet(exps, id, newExpectation),
                   idx |-> indexExpectation(idx, id, newExpectation),
                   state |-> IF persistenceEnabled THEN "save" ELSE "done"]
    ELSE LET r == RemoveResult(exps, idx, call.id)
         IN  [exps |-> r.exps, idx |-> r.idx,
              state |-> IF r.removed /\ persistenceEnabled THEN "save" ELSE "done"]

\* return addExpectation({ ...expectation, id: uuidv4() }) of the holder
InnerCall(call) == LockedCall("add", [call.e EXCEPT !.id = call.uuid], NoId, NoId)

\* the queue's first call becomes the holder and runs; calls that return
\* without awaiting hand the lock on at once
RECURSIVE RunQueue(_, _, _)
RunQueue(exps, idx, queue) ==
    IF queue = <<>> THEN [exps |-> exps, idx |-> idx, lock |-> <<>>, save |-> FALSE]
    ELSE LET r == LockedStart(Head(queue), exps, idx)
         IN  IF r.state = "done" THEN RunQueue(r.exps, r.idx, Tail(queue))
             ELSE IF r.state = "inner"
                  THEN [exps |-> r.exps, idx |-> r.idx, save |-> FALSE,
                        lock |-> <<[Head(queue) EXCEPT !.state = "inner"]>>
                                    \o Tail(queue) \o <<InnerCall(Head(queue))>>]
                  ELSE [exps |-> r.exps, idx |-> r.idx, save |-> TRUE,
                        lock |-> <<[Head(queue) EXCEPT !.state = "save"]>> \o Tail(queue)]

\* lock.acquire('expectations', fn) by a new call
Acquire(call) ==
    /\ Len(lock) < MaxLocked
    /\ IF lock # <<>>
       THEN /\ lock' = Append(lock, call)
            /\ UNCHANGED <<expectations, methodIndex, pathIndex,
                           wildcardExpectations, pending>>
       ELSE LET r == RunQueue(expectations, Indices, <<call>>)
            IN  /\ expectations' = r.exps
                /\ SetIndices(r.idx)
                /\ lock' = r.lock
                /\ IF r.save THEN saveToFile(r.exps, FALSE) ELSE pending' = pending

SettleLocked(op) ==
    /\ lastOp' = op
    /\ lastRequest' = NoRequest
    /\ found' = NoId
    /\ response' = NoResponse
    /\ UNCHANGED <<persistenceEnabled, clearing, history, watcher, tasks,
                   matcherCall, requestHistory, requestResponseHistory>>

\* uuids already handed to a call of the queue
UuidsOf(queue) == {queue[i].uuid : i \in 1 .. Len(queue)}

addExpectationLocked(e) ==
    /\ Cardinality(DOMAIN expectations) + Len(lock) < MaxStore
    /\ \E uuid \in FreshUuids \ UuidsOf(lock) :
          Acquire(LockedCall("add", e, NoId, uuid))
    /\ file' = file
    /\ SettleLocked("addLocked")

removeExpectationLocked(id) ==
    /\ Acquire(LockedCall("remove", NoDocument, id, NoId))
    /\ file' = file
    /\ SettleLocked("removeLocked")

\* the writeFile awaited by the holder completes: the holder returns and the
\* lock goes to the first queued call
lockedSaveCompletes ==
    /\ lock # <<>>
    /\ Head(lock).state = "save"
    /\ pending # <<>>
    /\ file' = Head(pending).snap
    /\ LET r == RunQueue(expectations, Indices, Tail(lock))
       IN  /\ expectations' = r.exps
           /\ SetIndices(r.idx)
           /\ lock' = r.lock
           /\ IF r.save
              THEN \E arr \in JsonArrays(r.exps) :
                      pending' = <<[snap |-> arr, byClear |-> FALSE]>>
              ELSE pending' = <<>>
    /\ UNCHANGED <<persistenceEnabled, clearing, history,
                   lastOp, lastRequest, found, response, watcher, tasks,
                   matcherCall, requestHistory, requestResponseHistory>>

\* the forEach of initializeStore over the loaded Map: an id already seen
\* gets uuidv4() instead
RECURSIVE Deduplicate(_, _, _)
Deduplicate(exps, seenIds, loaded) ==
    IF DOMAIN loaded = {} THEN exps
    ELSE LET id == CHOOSE x \in DOMAIN loaded : TRUE
             newId == IF id \in seenIds
                      THEN CHOOSE x \in UuidPool : x \notin seenIds \cup DOMAIN loaded
                      ELSE id
         IN  Deduplicate(MapSet(exps, newId, loaded[id]), seenIds \cup {newId},
                         MapDelete(loaded, id))

initializeStoreLocked ==
    /\ pending = <<>>
    /\ lock = <<>>
    /\ LET exps == IF persistenceEnabled
                   THEN Deduplicate(EmptyMap, {}, loadExpectations)
                   ELSE EmptyMap
       IN  /\ expectations' = exps
           /\ SetIndices(initializeIndices(exps))
    /\ UNCHANGED <<file, pending, lock>>
    /\ SettleLocked("initializeLocked")

-----------------------------------------------------------------------------
(* Control plane: PUT /mockserver/expectation *)

validateExpectationWithoutOneOf(e) == e.type = ""

\* validateExpectation: the Expectation schema has additionalProperties false
\* and no type property, and its oneOf requires exactly one action
validateExpectation(e) == e.type = "" /\ e.action \in {"httpResponse", "httpForward"}

\* the for loop of createExpectationHandler over the documents still to
\* handle; uuids are the values the uuidv4() calls of the upserts return
RECURSIVE PutResult(_, _, _, _)
PutResult(exps, idx, body, uuids) ==
    IF body = <<>> THEN [status |-> Created, exps |-> exps, idx |-> idx]
    ELSE IF ~validateExpectation(Head(body))
         THEN [status |-> BadRequest, exps |-> exps, idx |-> idx]
         ELSE LET r == UpsertResult(exps, idx, Head(body), Head(uuids))
              IN  PutResult(r.exps, r.idx, Tail(body), Tail(uuids))

\* bodies: one document, or an array of two
PairInputs ==
    Submitted({NoId}, {"http", ""}, {GET}, {UsersWildcardPath}, {Undefined},
              {"httpResponse"})

PutBodies ==
    {<<e>> : e \in Documents({NoId})} \cup {<<a, b>> : a \in PairInputs, b \in PairInputs}

\* with persistence disabled no await of the handler waits for I/O, so the
\* handler runs to its reply before any other handler starts
createExpectationHandler(body) ==
    /\ ~persistenceEnabled
    /\ \E uuids \in [1 .. Len(body) -> FreshUuids] :
          /\ \A i, j \in 1 .. Len(body) : i # j => uuids[i] # uuids[j]
          /\ LET r == PutResult(expectations, Indices, body, uuids)
             IN  /\ Cardinality(DOMAIN r.exps) <= MaxStore
                 /\ expectations' = r.exps
                 /\ SetIndices(r.idx)
                 /\ response' = [status |-> r.status, from |-> NoId]
    /\ lastOp' = "put"
    /\ lastRequest' = NoRequest
    /\ found' = NoId
    /\ UNCHANGED <<persistenceEnabled, file, pending, clearing, history, lock,
                   watcher, tasks,
                   matcherCall, requestHistory, requestResponseHistory>>

\* the handler with persistence enabled, for a body of one document: a 400
\* for a document that fails validation, else upsertExpectation up to its
\* writeFile; the 201 follows the save, with the store as this step leaves it
createExpectationHandlerSaving(e) ==
    /\ persistenceEnabled
    /\ CanSave
    /\ IF ~validateExpectation(e)
       THEN /\ response' = [status |-> BadRequest, from |-> NoId]
            /\ UNCHANGED <<expectations, methodIndex, pathIndex,
                           wildcardExpectations, pending>>
       ELSE /\ (e.id = NoId \/ e.id \notin DOMAIN expectations)
                  => Cardinality(DOMAIN expectations) < MaxStore
            /\ \E uuid \in UpsertUuids(expectations, e) :
                  LET r == UpsertResult(expectations, Indices, e, uuid)
                  IN  /\ expectations' = r.exps
                      /\ SetIndices(r.idx)
                      /\ saveToFile(r.exps, FALSE)
            /\ response' = [status |-> Created, from |-> NoId]
    /\ lastOp' = "put"
    /\ lastRequest' = NoRequest
    /\ found' = NoId
    /\ UNCHANGED <<persistenceEnabled, file, clearing, history, lock, watcher, tasks,
                   matcherCall, requestHistory, requestResponseHistory>>

-----------------------------------------------------------------------------
(* Startup: startServer *)

\* the array parsed from the initialization file; the empty array also
\* stands for no path configured and for a missing file, which load nothing
InitializationFiles ==
    {<<>>} \cup {<<e>> : e \in PairInputs} \cup {<<a, b>> : a \in PairInputs, b \in PairInputs}

\* the for loop of loadInitializationExpectations over the documents still to
\* handle: an invalid one is logged and skipped, a valid one is given to
\* addExpectation; uuids are the values the uuidv4() calls of the adds return
RECURSIVE LoadInitialization(_, _, _, _)
LoadInitialization(exps, idx, body, uuids) ==
    IF body = <<>> THEN [exps |-> exps, idx |-> idx]
    ELSE IF ~validateExpectation(Head(body))
         THEN LoadInitialization(exps, idx, Tail(body), Tail(uuids))
         ELSE LET newExpectation == Stored(Head(body), DefaultedPriority(Head(body)))
              IN  LoadInitialization(MapSet(exps, Head(uuids), newExpectation),
                                     indexExpectation(idx, Head(uuids), newExpectation),
                                     Tail(body), Tail(uuids))

\* startServer of a process started on the persistence file as it is, with
\* the initialization file holding initFile: configurePersistence,
\* initializeStore and, only when CONFIG.PERSIST_EXPECTATIONS is set,
\* loadInitializationExpectations.  No request is served before it ends;
\* each add awaits its save, so the last save is the one left in the file.
startServer(initFile) ==
    /\ pending = <<>>
    /\ clearing = {}
    /\ lock = <<>>
    /\ LET loaded == IF persistenceEnabled THEN loadExpectations ELSE EmptyMap
           started == [exps |-> loaded, idx |-> initializeIndices(loaded)]
       IN  \E uuids \in [1 .. Len(initFile) -> UuidPool \ DOMAIN loaded] :
              /\ \A i, j \in 1 .. Len(initFile) : i # j => uuids[i] # uuids[j]
              /\ LET r == IF persistenceEnabled
                          THEN LoadInitialization(started.exps, started.idx,
                                                  initFile, uuids)
                          ELSE started
                 IN  /\ Cardinality(DOMAIN r.exps) <= MaxStore
                     /\ expectations' = r.exps
                     /\ SetIndices(r.idx)
                     /\ IF r.exps # loaded
                        THEN file' \in JsonArrays(r.exps)
                        ELSE file' = file
    /\ Settle("start")
    /\ UNCHANGED <<persistenceEnabled, pending, clearing, history>>

-----------------------------------------------------------------------------
(* Initialization-file watcher: the callback setupInitializationFileWatcher *)
(* gives to watchFile.  startServer sets the watcher up only when           *)
(* CONFIG.PERSIST_EXPECTATIONS is set, so every save of the callback is an  *)
(* awaited writeFile.  The callback resumes from an awaited save when no    *)
(* write is in flight.  watcher is                                          *)
(*   phase       : "off", "idle", "read" (awaiting readFile), "reload",     *)
(*                 "rollback"                                               *)
(*   content     : what the changed file holds                              *)
(*   todo        : the documents the running loop has still to add          *)
(*   before      : the documents of the store when the change was seen      *)
(*   lastContent : what getLastSavedContent() returns                       *)

\* the documents of a store, with the number of ids holding each
DocsIn(exps) ==
    [d \in {exps[k] : k \in DOMAIN exps} |->
        Cardinality({k \in DOMAIN exps : exps[k] = d})]

\* the documents addExpectation stores for the elements of an array
DocsOf(docs) ==
    LET stored(i) == Stored(docs[i], DefaultedPriority(docs[i]))
    IN  [d \in {stored(i) : i \in 1 .. Len(docs)} |->
            Cardinality({i \in 1 .. Len(docs) : stored(i) = d})]

\* documents of an initialization file: without a type as the Expectation
\* schema asks, with one action, none or two, and one with a type
WatchedDocuments ==
    PairInputs
      \cup Submitted({NoId}, {""}, {GET}, {UsersWildcardPath}, {Undefined}, {"", Both})

\* what the watched file may hold after a change: text that JSON.parse
\* rejects, JSON that is not an array, or an array of documents
WatchedContents ==
    {[kind |-> k, docs |-> <<>>] : k \in {"unparseable", "object"}}
      \cup {[kind |-> "array", docs |-> docs] :
               docs \in {<<>>} \cup {<<e>> : e \in WatchedDocuments}
                          \cup {<<a, b>> : a \in WatchedDocuments, b \in PairInputs}}

\* the elements of an array that pass validateExpectation
RECURSIVE ValidOf(_)
ValidOf(docs) ==
    IF docs = <<>> THEN <<>>
    ELSE IF validateExpectation(Head(docs)) THEN <<Head(docs)>> \o ValidOf(Tail(docs))
         ELSE ValidOf(Tail(docs))

\* the for loop of the reload up to its next await: elements failing
\* validateExpectation throw inside the loop's own try and are logged
RECURSIVE SkipInvalid(_)
SkipInvalid(todo) ==
    IF todo = <<>> \/ validateExpectation(Head(todo)) THEN todo
    ELSE SkipInvalid(Tail(todo))

WatcherFrame(op) ==
    /\ lastOp' = op
    /\ lastRequest' = NoRequest
    /\ found' = NoId
    /\ response' = NoResponse
    /\ UNCHANGED <<persistenceEnabled, file, clearing, history, lock, tasks,
                   matcherCall, requestHistory, requestResponseHistory>>

\* watchFile sees the file changed and calls the callback, which awaits readFile
watchFileChange(content) ==
    /\ watcher.phase = "idle"
    /\ watcher' = [watcher EXCEPT !.phase = "read", !.content = content,
                                  !.before = DocsIn(expectations)]
    /\ UNCHANGED <<expectations, methodIndex, pathIndex, wildcardExpectations, pending>>
    /\ WatcherFrame("watch")

\* await clearExpectations() of the callback up to its writeFile
WatcherClears(phase, todo) ==
    /\ expectations' = EmptyMap
    /\ SetIndices(initializeIndices(EmptyMap))
    /\ saveToFile(EmptyMap, FALSE)
    /\ watcher' = [watcher EXCEPT !.phase = phase, !.todo = todo]

\* getLastSavedContent(): the last-known-good set held in memory, or null
getLastSavedContent == watcher.lastContent

\* the last-known-good set once the callback has returned: the content just
\* loaded when the reload went through without a failure
LastKnownGood ==
    IF /\ watcher.phase = "reload"
       /\ ValidOf(watcher.content.docs) = watcher.content.docs
    THEN [known |-> TRUE, docs |-> watcher.content.docs]
    ELSE watcher.lastContent

\* the callback returns
WatcherReturns ==
    /\ watcher' = [watcher EXCEPT !.phase = "idle", !.todo = <<>>,
                                  !.lastContent = LastKnownGood]
    /\ UNCHANGED <<expectations, methodIndex, pathIndex, wildcardExpectations, pending>>

\* readFile resolves: JSON.parse, Array.isArray, then clearExpectations(); a
\* throw goes to the outer catch, which restores getLastSavedContent()
watcherReads ==
    /\ watcher.phase = "read"
    /\ CanSave
    /\ IF watcher.content.kind = "array"
       THEN WatcherClears("reload", watcher.content.docs) /\ WatcherFrame("reload")
       ELSE IF getLastSavedContent.known
            THEN WatcherClears("rollback", getLastSavedContent.docs)
                    /\ WatcherFrame("rollback")
            ELSE WatcherReturns /\ WatcherFrame("reloaded")

\* the awaited save is done: the loop goes on to its next addExpectation and
\* awaits that one, or ends
watcherResumes ==
    /\ watcher.phase \in {"reload", "rollback"}
    /\ pending = <<>>
    /\ LET todo == IF watcher.phase = "reload" THEN SkipInvalid(watcher.todo)
                   ELSE watcher.todo
       IN  IF todo = <<>>
           THEN WatcherReturns /\ WatcherFrame("reloaded")
           ELSE /\ Cardinality(DOMAIN expectations) < MaxStore
                /\ \E id \in FreshUuids :
                      LET newExpectation ==
                              Stored(Head(todo), DefaultedPriority(Head(todo)))
                          exps == MapSet(expectations, id, newExpectation)
                      IN  /\ expectations' = exps
                          /\ SetIndices(indexExpectation(Indices, id, newExpectation))
                          /\ saveToFile(exps, FALSE)
                /\ watcher' = [watcher EXCEPT !.todo = Tail(todo)]
                /\ WatcherFrame(watcher.phase)

-----------------------------------------------------------------------------
(* Data plane: requestHandler.  The canned responses drawn here have       *)
(* statusCode 200 and no delay.                                            *)

requestHandler(request) ==
    /\ LET matchingExpectation == findMatchingExpectation(request, expectations, Indices)
       IN  /\ found' = matchingExpectation
           /\ IF matchingExpectation = NoId
              THEN \* next(): no control-plane route, the 404 default replies
                   response' = [status |-> NotFound, from |-> NoId]
              ELSE IF expectations[matchingExpectation].action = "httpResponse"
                   THEN response' = [status |-> Ok, from |-> matchingExpectation]
                   ELSE \* forwardRequest resolves with the upstream reply or throws
                        \E status \in {Ok, BadGateway} :
                            response' = [status |-> status, from |-> matchingExpectation]
    /\ lastRequest' = request
    /\ lastOp' = "request"
    /\ UNCHANGED <<expectations, methodIndex, pathIndex, wildcardExpectations,
                   persistenceEnabled, file, pending, clearing, history, lock,
                   watcher, tasks,
                   matcherCall, requestHistory, requestResponseHistory>>

-----------------------------------------------------------------------------
(* Data plane, one await at a time.  An exchange of tasks is               *)
(*   request   : the request                                               *)
(*   from      : the id of the expectation find returned, or NoId           *)
(*   action    : what handleResponse chose: "httpResponse", "httpForward"   *)
(*               or "" (neither)                                            *)
(*   delay     : the delay property of the chosen action                    *)
(*   phase     : "sleeping" (await delay), "forwarding" (await              *)
(*               forwardRequest) or "done"                                  *)
(*   remaining : milliseconds until the timer of the sleep is due           *)
(*   slept     : milliseconds slept                                         *)
(*   statusCode : httpResponse.statusCode of the chosen canned response     *)
(*   status    : the status written to the client, 0 while none is          *)
(*   writes    : times the handler sent a status and a body with            *)
(*               res.status(..).json(..), res.send or res.end; a send that  *)
(*               Node rejects for its status code is not counted            *)
(*   by        : who wrote it: "handler", or "default" (the 404 handler     *)
(*               that next() reaches)                                       *)
(*   next      : calls of next() made by the handler                        *)
(*   upstream  : the upstream request: "none", "issued", "error" (the       *)
(*               request emits 'error'), "headers" (the response callback   *)
(*               ran), "ended" (the response emits 'end') or "aborted"      *)
(*               (the connection is lost while the body is read)            *)
(*   headers   : upstream headers were set on the reply                     *)

\* String.prototype.toUpperCase on the time units drawn
toUpperCase(timeUnit) == IF timeUnit = "seconds" THEN "SECONDS" ELSE timeUnit

calculateDelay(delayConfig) ==
    IF delayConfig.kind = "none" THEN 0
    ELSE IF delayConfig.kind = "number" THEN delayConfig.value
    ELSE IF delayConfig.timeUnit # "" /\ delayConfig.value # 0
         THEN CASE toUpperCase(delayConfig.timeUnit) = "MILLISECONDS" -> delayConfig.value
                [] toUpperCase(delayConfig.timeUnit) = "SECONDS" -> delayConfig.value * 1000
                [] toUpperCase(delayConfig.timeUnit) = "MINUTES" ->
                       delayConfig.value * 60 * 1000
                [] OTHER -> delayConfig.value
         ELSE 0

Milliseconds(n) == [kind |-> "number", timeUnit |-> "", value |-> n]
DelayObject(timeUnit, value) == [kind |-> "object", timeUnit |-> timeUnit, value |-> value]

\* an exchange on arrival, before the handler has done anything
NewTask(request) ==
    [request |-> request, from |-> NoId, action |-> "", delay |-> NoDelay,
     statusCode |-> Undefined, phase |-> "done", remaining |-> 0, slept |-> 0,
     status |-> 0, writes |-> 0, by |-> "", next |-> 0, upstream |-> "none",
     headers |-> FALSE]

\* an integer, as the HttpResponse schema asks of statusCode, that is no
\* HTTP status code
InvalidStatusCode == 1000

\* httpResponse.statusCode || httpResponse.status || 200
StatusOf(statusCode) == IF statusCode = Undefined THEN Ok ELSE statusCode[1]

\* the status codes that writeHead of Node accepts
ValidStatusCode(code) == code >= 100 /\ code <= 999

\* sendMockResponse and sendForwardedResponse after their delay: the canned
\* reply is written, or forwardRequest issues the upstream request.  When
\* the status code is one that writeHead rejects, res.send or res.end throws
\* before anything is sent; the catch of handleResponse sends a 500 and
\* throws the error again, and the catch of requestHandler sends a 500 once
\* more
AfterDelay(t) ==
    IF t.action = "httpResponse"
    THEN IF ValidStatusCode(StatusOf(t.statusCode))
         THEN [t EXCEPT !.phase = "done", !.status = StatusOf(t.statusCode),
                        !.writes = @ + 1, !.by = "handler"]
         ELSE [t EXCEPT !.phase = "done", !.status = InternalServerError,
                        !.writes = @ + 2, !.by = "handler"]
    ELSE [t EXCEPT !.phase = "forwarding", !.upstream = "issued"]

ArrivalReplyingNotFound(request, exps, idx) ==
    LET id == findMatchingExpectation(request, exps, idx)
        t == NewTask(request)
    IN  IF id = NoId
        THEN [t EXCEPT !.status = NotFound, !.writes = 1, !.by = "handler"]
        ELSE AfterDelay([t EXCEPT !.from = id, !.action = "httpResponse"])

ArrivalNotAwaitingDelay(request, exps, idx) ==
    LET id == findMatchingExpectation(request, exps, idx)
        t == NewTask(request)
    IN  IF id = NoId
        THEN [t EXCEPT !.next = 1, !.status = NotFound, !.by = "default"]
        ELSE AfterDelay([t EXCEPT !.from = id, !.delay = exps[id].delay,
                                  !.action = IF exps[id].action = "httpForward"
                                             THEN "httpForward" ELSE "httpResponse"])

\* requestHandler up to its first await: find; next() when nothing matches,
\* which the 404 handler of the server answers; else handleResponse, which
\* takes httpResponse before httpForward and replies 500 when there is neither
Arrival(request, exps, idx) ==
    LET id == findMatchingExpectation(request, exps, idx)
        t == NewTask(request)
    IN  IF id = NoId
        THEN [t EXCEPT !.next = 1, !.status = NotFound, !.by = "default"]
        ELSE LET e == exps[id]
                 action == IF e.action \in {"httpResponse", Both} THEN "httpResponse"
                           ELSE e.action
                 matched == [t EXCEPT !.from = id, !.action = action, !.delay = e.delay,
                                      !.statusCode = e.statusCode]
             IN  IF action = ""
                 THEN [matched EXCEPT !.status = InternalServerError, !.writes = 1,
                                      !.by = "handler"]
                 ELSE IF calculateDelay(e.delay) > 0
                      THEN [matched EXCEPT !.phase = "sleeping",
                                           !.remaining = calculateDelay(e.delay)]
                      ELSE AfterDelay(matched)

DataFrame(op) ==
    /\ lastOp' = op
    /\ lastRequest' = NoRequest
    /\ found' = NoId
    /\ response' = NoResponse
    /\ UNCHANGED <<expectations, methodIndex, pathIndex, wildcardExpectations,
                   persistenceEnabled, file, pending, clearing, history, lock, watcher,
                   matcherCall, requestHistory, requestResponseHistory>>

requestArrives(request) ==
    /\ Len(tasks) < MaxTasks
    /\ tasks' = Append(tasks, Arrival(request, expectations, Indices))
    /\ DataFrame("arrive")

\* the timer of a sleep is due: timers run in the order of their deadlines,
\* and the time that passed counts for every exchange asleep
timerFires(i) ==
    /\ i <= Len(tasks)
    /\ tasks[i].phase = "sleeping"
    /\ \A j \in 1 .. Len(tasks) :
          tasks[j].phase = "sleeping" => tasks[i].remaining <= tasks[j].remaining
    /\ tasks' = [j \in 1 .. Len(tasks) |->
                    LET passed == [tasks[j] EXCEPT
                                      !.remaining = @ - tasks[i].remaining,
                                      !.slept = @ + tasks[i].remaining]
                    IN  IF j = i THEN AfterDelay(passed)
                        ELSE IF tasks[j].phase = "sleeping" THEN passed
                        ELSE tasks[j]]
    /\ DataFrame("timer")

\* req.on('error'): the promise of forwardRequest rejects and the catch of
\* sendForwardedResponse replies 502
upstreamError(i) ==
    /\ i <= Len(tasks)
    /\ tasks[i].phase = "forwarding"
    /\ tasks[i].upstream = "issued"
    /\ tasks' = [tasks EXCEPT ![i] = [@ EXCEPT !.upstream = "error", !.phase = "done",
                                               !.status = BadGateway, !.writes = @ + 1,
                                               !.by = "handler"]]
    /\ DataFrame("upstream")

\* the callback of httpModule.request runs: status and headers have arrived
upstreamResponds(i) ==
    /\ i <= Len(tasks)
    /\ tasks[i].phase = "forwarding"
    /\ tasks[i].upstream = "issued"
    /\ tasks' = [tasks EXCEPT ![i] = [@ EXCEPT !.upstream = "headers"]]
    /\ DataFrame("upstream")

\* res.on('end'): the promise resolves; headers, status and body are copied
upstreamEnds(i) ==
    /\ i <= Len(tasks)
    /\ tasks[i].phase = "forwarding"
    /\ tasks[i].upstream = "headers"
    /\ tasks' = [tasks EXCEPT ![i] = [@ EXCEPT !.upstream = "ended", !.phase = "done",
                                               !.headers = TRUE,
                                               !.status = Ok, !.writes = @ + 1,
                                               !.by = "handler"]]
    /\ DataFrame("upstream")

\* the connection is lost while the body is read: the response emits
\* 'aborted', for which forwardRequest has no listener, and neither 'end'
\* nor the request's 'error' follows, so the promise stays pending
upstreamAborts(i) ==
    /\ i <= Len(tasks)
    /\ tasks[i].phase = "forwarding"
    /\ tasks[i].upstream = "headers"
    /\ tasks' = [tasks EXCEPT ![i] = [@ EXCEPT !.upstream = "aborted"]]
    /\ DataFrame("upstream")

-----------------------------------------------------------------------------
(* Specifications *)

InitStore ==
    /\ expectations = EmptyMap
    /\ methodIndex = EmptyIndices.m
    /\ pathIndex = EmptyIndices.p
    /\ wildcardExpectations = EmptyIndices.w
    /\ file = <<>>
    /\ pending = <<>>
    /\ clearing = {}
    /\ lastOp = "init"
    /\ lastRequest = NoRequest
    /\ found = NoId
    /\ response = NoResponse

\* no history is recorded
NoHistory == [on |-> FALSE, base |-> [exps |-> EmptyMap, idx |-> EmptyIndices], calls |-> <<>>]

\* the store of a server started with persistence disabled
Init ==
    /\ InitStore
    /\ persistenceEnabled = FALSE
    /\ history = NoHistory
    /\ lock = <<>>
    /\ watcher = NoWatcher
    /\ tasks = <<>>
    /\ matcherCall = NoMatching
    /\ requestHistory = <<>>
    /\ requestResponseHistory = <<>>

Next ==
    \/ \E e \in AddInputs : addExpectation(e)
    \/ \E e \in UpsertInputs : upsertExpectation(e)
    \/ \E id \in UuidPool : removeExpectation(id)
    \/ clearExpectations
    \/ \E req \in ClearFilters : clearExpectationsByRequest(req)
    \/ initializeStore
    \/ \E request \in Requests : findExpectationForRequest(request)
    \/ \E body \in PutBodies : createExpectationHandler(body)
    \/ \E request \in Requests : requestHandler(request)
    \/ \E initFile \in InitializationFiles : startServer(initFile)

Spec == Init /\ [][Next]_vars

\* the store of a server started with persistence enabled (the default)
InitPersist ==
    /\ InitStore
    /\ persistenceEnabled = TRUE
    /\ history = NoHistory
    /\ lock = <<>>
    /\ watcher = NoWatcher
    /\ tasks = <<>>
    /\ matcherCall = NoMatching
    /\ requestHistory = <<>>
    /\ requestResponseHistory = <<>>

NextPersist ==
    \/ \E e \in PersistInputs : addExpectation(e)
    \/ \E e \in PersistInputs : upsertExpectation(e)
    \/ \E id \in UuidPool : removeExpectation(id)
    \/ clearExpectations
    \/ \E req \in ClearFilters : clearExpectationsByRequest(req)
    \/ clearExpectationsResume
    \/ initializeStore
    \/ writeFileCompletes
    \/ \E initFile \in InitializationFiles : startServer(initFile)

SpecPersist == InitPersist /\ [][NextPersist]_vars

\* documents and filters of the recorded runs: two paths, so that an upsert can
\* move a stored expectation out of a filter
SerialInputs ==
    Submitted({NoId} \cup UuidPool, {"http"}, {GET},
              {UsersWildcardPath, ApiResourcePath}, {Undefined}, {"httpResponse"})

SerialAdds == {e \in SerialInputs : e.id = NoId}

SerialFilters ==
    {[method |-> Undefined, path |-> UsersWildcardPath],
     [method |-> GET, path |-> Undefined]}

\* the store a previous run saved: two expectations on the same path
SavedStore ==
    [id \in {1, 2} |->
        [type |-> "http", method |-> GET, path |-> UsersWildcardPath,
         priority |-> Some(0), action |-> "httpResponse", delay |-> NoDelay,
         statusCode |-> Undefined]]

\* a server started with persistence enabled on the file of a previous run;
\* the calls issued from then on are recorded
InitSerial ==
    /\ persistenceEnabled = TRUE
    /\ file \in JsonArrays(SavedStore)
    /\ expectations = LoadFrom(EmptyMap, file)
    /\ methodIndex = initializeIndices(SavedStore).m
    /\ pathIndex = initializeIndices(SavedStore).p
    /\ wildcardExpectations = initializeIndices(SavedStore).w
    /\ pending = <<>>
    /\ clearing = {}
    /\ lastOp = "initialize"
    /\ lastRequest = NoRequest
    /\ found = NoId
    /\ response = NoResponse
    /\ history = [on |-> TRUE,
                  base |-> [exps |-> SavedStore, idx |-> initializeIndices(SavedStore)],
                  calls |-> <<>>]
    /\ lock = <<>> /\ watcher = NoWatcher /\ tasks = <<>>
    /\ matcherCall = NoMatching
    /\ requestHistory = <<>>
    /\ requestResponseHistory = <<>>

NextSerial ==
    \/ \E e \in SerialAdds : addExpectation(e)
    \/ \E e \in SerialInputs : upsertExpectation(e)
    \/ \E id \in UuidPool : removeExpectation(id)
    \/ clearExpectations
    \/ \E req \in SerialFilters : clearExpectationsByRequest(req)
    \/ clearExpectationsResume
    \/ writeFileCompletes

SpecSerial == InitSerial /\ [][NextSerial]_vars

\* documents given to the store with the lock, with and without a client id
LockedInputs ==
    Submitted({NoId, 1, 2}, {"http", ""}, {GET}, {UsersWildcardPath}, {Undefined},
              {"httpResponse"})

\* persistence files found at startup: none, or an array of one or two
\* documents, whose ids may be the same
FoundFiles ==
    LET entries == {[id |-> e.id, doc |-> Stored(e, DefaultedPriority(e))] :
                       e \in {x \in LockedInputs : x.id # NoId}}
    IN  {<<>>} \cup {<<a>> : a \in entries} \cup {<<a, b>> : a \in entries, b \in entries}

\* a server with persistence enabled before initializeStore has run
InitLocked ==
    /\ expectations = EmptyMap
    /\ methodIndex = EmptyIndices.m
    /\ pathIndex = EmptyIndices.p
    /\ wildcardExpectations = EmptyIndices.w
    /\ persistenceEnabled = TRUE
    /\ file \in FoundFiles
    /\ pending = <<>>
    /\ clearing = {}
    /\ lastOp = "init"
    /\ lastRequest = NoRequest
    /\ found = NoId
    /\ response = NoResponse
    /\ history = NoHistory
    /\ lock = <<>> /\ watcher = NoWatcher /\ tasks = <<>>
    /\ matcherCall = NoMatching
    /\ requestHistory = <<>>
    /\ requestResponseHistory = <<>>

NextLocked ==
    \/ initializeStoreLocked
    \/ \E e \in LockedInputs : addExpectationLocked(e)
    \/ \E id \in UuidPool : removeExpectationLocked(id)
    \/ lockedSaveCompletes
    \/ \E request \in Requests : findExpectationForRequest(request)

\* every step that can be taken is eventually taken: writes complete and
\* queued calls get the lock when it is released
SpecLocked == InitLocked /\ [][NextLocked]_vars /\ WF_vars(NextLocked)

\* a server whose startServer has ended: persistence enabled, no persistence
\* file found, the initialization file (holding initFile, or missing) loaded
\* and saved, the watcher set up
InitWatch ==
    /\ persistenceEnabled = TRUE
    /\ \E initFile \in InitializationFiles :
       \E uuids \in [1 .. Len(initFile) -> UuidPool] :
          /\ \A i, j \in 1 .. Len(initFile) : i # j => uuids[i] # uuids[j]
          /\ LET r == LoadInitialization(EmptyMap, EmptyIndices, initFile, uuids)
             IN  /\ expectations = r.exps
                 /\ methodIndex = r.idx.m
                 /\ pathIndex = r.idx.p
                 /\ wildcardExpectations = r.idx.w
                 /\ file \in JsonArrays(r.exps)
          /\ watcher \in {[NoWatcher EXCEPT
                              !.phase = "idle",
                              !.lastContent = [known |-> known,
                                               docs |-> ValidOf(initFile)]] :
                              known \in IF initFile = <<>> THEN BOOLEAN ELSE {TRUE}}
    /\ pending = <<>>
    /\ clearing = {}
    /\ lastOp = "start"
    /\ lastRequest = NoRequest
    /\ found = NoId
    /\ response = NoResponse
    /\ history = NoHistory
    /\ lock = <<>>
    /\ tasks = <<>>
    /\ matcherCall = NoMatching
    /\ requestHistory = <<>>
    /\ requestResponseHistory = <<>>

NextWatch ==
    \/ \E content \in WatchedContents : watchFileChange(content)
    \/ watcherReads
    \/ watcherResumes
    \/ writeFileCompletes
    \/ \E request \in Requests : findExpectationForRequest(request)

SpecWatch == InitWatch /\ [][NextWatch]_vars

\* expectations answering the data plane: with type "http", a canned response
\* or a forward, some with a delay, and one with neither action
DataInputs ==
    {[e EXCEPT !.delay = d] :
        e \in Submitted({NoId}, {"http"}, {GET}, {UsersWildcardPath}, {Undefined},
                        {"httpResponse"}),
        d \in {NoDelay, Milliseconds(5)}}
      \cup {[e EXCEPT !.delay = d] :
        e \in Submitted({NoId}, {"http"}, {GET}, {UsersWildcardPath}, {Undefined},
                        {"httpForward"}),
        d \in {NoDelay, DelayObject("SECONDS", 1)}}
      \cup Submitted({NoId}, {"http"}, {GET}, {UsersWildcardPath}, {Undefined}, {""})
      \cup {[e EXCEPT !.statusCode = Some(InvalidStatusCode)] :
               e \in Submitted({NoId}, {"http"}, {GET}, {UsersWildcardPath}, {Undefined},
                               {"httpResponse"})}

\* a request the expectations match and one they do not
DataRequests ==
    {[method |-> GET, path |-> Users42Path], [method |-> GET, path |-> Other42Path]}

\* req.headers of the requests of clients: Node gives the names in lower
\* case; a plain client, a client behind a proxy, and one that signs
ClientHeaders ==
    {("accept" :> "text/html"),
     ("accept" :> "text/html" @@ "host" :> "mock:1080" @@ "connection" :> "keep-alive"
        @@ "x-forwarded-for" :> "10.0.0.1" @@ "x-real-ip" :> "10.0.0.1"),
     ("host" :> "mock:1080" @@ "x-lppsignature" :> "c2lnbmVk")}

\* the requests of DataRequests as the handler gets them, with their headers
ClientRequests ==
    {[method |-> r.method, path |-> r.path, headers |-> h] :
        r \in DataRequests, h \in ClientHeaders}

\* httpForward.host of the forward expectations
TargetHost == "upstream"

\* String.prototype.toLowerCase on the header names that occur
toLowerCase(key) == IF key = "X-LppSignature" THEN "x-lppsignature" ELSE key

\* Object assignment headers[key] = value
HeaderSet(headers, key, value) ==
    [k \in (DOMAIN headers) \cup {key} |-> IF k = key THEN value ELSE headers[k]]

skipHeaders ==
    {"host", "connection", "content-length", "x-forwarded-for", "x-forwarded-host",
     "x-forwarded-port", "x-forwarded-proto", "x-forwarded-server", "x-nginx-proxy",
     "x-real-ip"}

\* options.headers of the upstream request that forwardRequest issues with
\* http.request
forwardRequest(request, host) ==
    LET kept == {k \in DOMAIN request.headers : toLowerCase(k) \notin skipHeaders}
        headers == [k \in kept |-> request.headers[k]]
        signatureHeaderKeys == {k \in kept : toLowerCase(k) = "x-lppsignature"}
        signed == IF signatureHeaderKeys # {}
                  THEN HeaderSet(headers, CHOOSE k \in signatureHeaderKeys : TRUE,
                                 "hmac_bypass_sinsay")
                  ELSE HeaderSet(headers, "X-LppSignature", "hmac_bypass_sinsay")
    IN  HeaderSet(signed, "host", host)

\* the headers of the upstream request of the revision of forwardRequest that
\* uses fetch: options.headers, and the Host header that the HTTP client
\* derives from the URL
forwardRequestWithFetch(request, host) ==
    LET kept == {k \in DOMAIN request.headers :
                    toLowerCase(k) \notin {"host", "connection", "content-length"}}
    IN  HeaderSet([k \in kept |-> request.headers[k]], "host", host)

\* the headers the upstream request of an exchange may carry: the repository
\* holds both revisions of the forwarder module
UpstreamHeaders(t) ==
    {forwardRequest(t.request, TargetHost), forwardRequestWithFetch(t.request, TargetHost)}

NextData ==
    \/ \E e \in DataInputs : addExpectation(e)
    \/ \E request \in ClientRequests : requestArrives(request)
    \/ \E i \in 1 .. MaxTasks : timerFires(i)
    \/ \E i \in 1 .. MaxTasks : upstreamError(i)
    \/ \E i \in 1 .. MaxTasks : upstreamResponds(i)
    \/ \E i \in 1 .. MaxTasks : upstreamEnds(i)
    \/ \E i \in 1 .. MaxTasks : upstreamAborts(i)

\* the server with persistence disabled, as Spec, serving the data plane
SpecData == Init /\ [][NextData]_vars

\* documents given to the store of a server whose disk may fail
DiskInputs ==
    Submitted({NoId, 1}, {"http"}, {GET}, {UsersWildcardPath}, {Undefined, Some(10)},
              {"httpResponse"})

DiskAdds == {e \in DiskInputs : e.id = NoId}

\* persistence files found at startup, as another program or an operator may
\* have written them: arrays of documents with or without a priority
DiskFiles ==
    LET entries == {[id |-> id, doc |-> [type |-> e.type, method |-> e.method,
                                         path |-> e.path, priority |-> e.priority,
                                         action |-> e.action, delay |-> e.delay,
                                         statusCode |-> e.statusCode]] :
                       id \in {1, 2}, e \in DiskAdds}
    IN  {<<>>} \cup {<<a>> : a \in entries}
          \cup {<<a, b>> : a \in entries, b \in entries}

\* a server with persistence enabled before initializeStore has run
InitDisk ==
    /\ expectations = EmptyMap
    /\ methodIndex = EmptyIndices.m
    /\ pathIndex = EmptyIndices.p
    /\ wildcardExpectations = EmptyIndices.w
    /\ persistenceEnabled = TRUE
    /\ file \in DiskFiles
    /\ pending = <<>>
    /\ clearing = {}
    /\ lastOp = "init"
    /\ lastRequest = NoRequest
    /\ found = NoId
    /\ response = NoResponse
    /\ history = NoHistory
    /\ lock = <<>>
    /\ watcher = NoWatcher
    /\ tasks = <<>>
    /\ matcherCall = NoMatching
    /\ requestHistory = <<>>
    /\ requestResponseHistory = <<>>

NextDisk ==
    \/ initializeStore
    \/ \E e \in DiskAdds : addExpectation(e)
    \/ \E e \in DiskInputs : upsertExpectation(e)
    \/ \E request \in DataRequests : findExpectationForRequest(request)
    \/ writeFileCompletes
    \/ \E i \in 1 .. MaxPending : writeFileFails(i)

SpecDisk == InitDisk /\ [][NextDisk]_vars

\* the ways a document gets into the store of a running server: PUT on the
\* control plane, the initialization file at startup (InitWatch), a reload
\* and a rollback of the watcher
NextAdmit ==
    \/ \E e \in WatchedDocuments : createExpectationHandlerSaving(e)
    \/ \E content \in WatchedContents : watchFileChange(content)
    \/ watcherReads
    \/ watcherResumes
    \/ writeFileCompletes

SpecAdmit == InitWatch /\ [][NextAdmit]_vars

-----------------------------------------------------------------------------
(* Recorded requests (listExpectationsHandler; api/handlers/retrieveHandler *)
(* holds the same code).  An entry is the serial number of its recording:  *)
(* the place of the entry in the order of arrival.  The request and the    *)
(* response of an entry are left out.                                      *)

\* the lists are cut to this many entries
HistoryLimit == 100

\* the serial number of the next recording
SerialAfter(list) == IF list = <<>> THEN 1 ELSE list[Len(list)] + 1

RecordedWithoutShift(list, entry) == Append(list, entry)

\* if (list.length >= 100) list.shift(); list.push(entry)
Recorded(list, entry) ==
    IF Len(list) >= HistoryLimit THEN Append(Tail(list), entry) ELSE Append(list, entry)

HistoryFrame ==
    UNCHANGED <<expectations, methodIndex, pathIndex, wildcardExpectations,
                persistenceEnabled, file, pending, clearing, lastOp, lastRequest,
                found, response, history, lock, watcher, tasks, matcherCall>>

recordRequest ==
    /\ SerialAfter(requestHistory) <= MaxRecorded
    /\ requestHistory' = Recorded(requestHistory, SerialAfter(requestHistory))
    /\ UNCHANGED requestResponseHistory
    /\ HistoryFrame

recordRequestResponse ==
    /\ SerialAfter(requestResponseHistory) <= MaxRecorded
    /\ requestResponseHistory' =
          Recorded(requestResponseHistory, SerialAfter(requestResponseHistory))
    /\ UNCHANGED requestHistory
    /\ HistoryFrame

clearRequestHistory ==
    /\ requestHistory' = <<>>
    /\ requestResponseHistory' = <<>>
    /\ HistoryFrame

NextHistory ==
    \/ recordRequest
    \/ recordRequestResponse
    \/ clearRequestHistory

\* the recording of the requests the data plane handles
SpecHistory == Init /\ [][NextHistory]_vars

-----------------------------------------------------------------------------
(* matchesExpectation on every field of the request-definition             *)
(* (request-handling/matcher).  Here a request is a record [method, path,  *)
(* query, headers, body] and an expectation a record [action, matchType,   *)
(* method, path, query, headers, body]:                                    *)
(*   method, path : [kind, value, not], kind "absent", "string" (a plain   *)
(*                  string, whose .not is undefined) or "object"           *)
(*   query, headers : Absent, or the object itself, a map from keys to     *)
(*                  values that holds the key "not" when the flag is set   *)
(*   body         : [kind, type, value, not], kind "absent" or "object"    *)
(*   matchType    : "" (no property), "strict" or "onlyMatchingFields"     *)

Absent == [kind |-> "absent"]

\* MatchType of expectations/types.js
MatchType == [STRICT |-> "strict", ONLY_MATCHING_FIELDS |-> "onlyMatchingFields"]

AppJson ==
    <<"a", "p", "p", "l", "i", "c", "a", "t", "i", "o", "n", "/", "j", "s", "o", "n">>

\* String.prototype.includes for a string
includesString(s, sub) ==
    \E i \in 1 .. (Len(s) - Len(sub) + 1) : SubSeq(s, i, i + Len(sub) - 1) = sub

\* Object.entries(expected).every(...) of matchMultiValue, for values that are
\* strings: "not" is an entry of the expected object like any other key
matchMultiValue(actual, expected, matchType) ==
    /\ (matchType = "STRICT" => Cardinality(DOMAIN actual) = Cardinality(DOMAIN expected))
    /\ \A key \in DOMAIN expected :
          /\ key \in DOMAIN actual
          /\ (matchRegex(actual[key], expected[key])
                \/ matchString(actual[key], expected[key]))

\* matchBody for the body matchers of type string (the default) and regex
matchBody(actual, expected, matchType) ==
    /\ actual # Undefined
    /\ IF expected.type = "regex" THEN matchRegex(actual, expected.value)
       ELSE matchString(actual, expected.value)

\* queryParams.not === true, httpRequest.headers.not === true
IsNot(object) == "not" \in DOMAIN object /\ object["not"] = TRUE

\* matchesExpectation with every branch: the forward branch looks at method
\* and path only, and at the path with matchRegex only
matchesExpectationFields(request, expectation) ==
    IF expectation.action = "httpForward"
    THEN /\ expectation.method.kind # "absent"
               => LET methodMatches ==
                          \/ matchRegex(request.method, expectation.method.value)
                          \/ matchString(request.method, expectation.method.value)
                  IN  ~(IF expectation.method.not THEN methodMatches ELSE ~methodMatches)
         /\ expectation.path.kind # "absent"
               => LET pathMatches == matchRegex(request.path, expectation.path.value)
                  IN  ~(IF expectation.path.not THEN pathMatches ELSE ~pathMatches)
    ELSE IF expectation.action # "httpResponse" THEN FALSE
    ELSE LET matchType == IF expectation.matchType # "" THEN expectation.matchType
                          ELSE MatchType.ONLY_MATCHING_FIELDS
         IN  /\ expectation.method.kind # "absent"
                   => LET methodMatches ==
                              \/ matchRegex(request.method, expectation.method.value)
                              \/ matchString(request.method, expectation.method.value)
                      IN  ~(IF expectation.method.not THEN methodMatches
                            ELSE ~methodMatches)
             /\ expectation.path.kind # "absent"
                   => LET pathMatches ==
                              \/ matchRegex(request.path, expectation.path.value)
                              \/ matchString(request.path, expectation.path.value)
                      IN  ~(IF expectation.path.not THEN pathMatches ELSE ~pathMatches)
             /\ expectation.query # Absent
                   => LET matches == matchMultiValue(request.query, expectation.query,
                                                     matchType)
                      IN  ~(IF IsNot(expectation.query) THEN matches ELSE ~matches)
             /\ expectation.headers # Absent
                   => LET matches == matchMultiValue(request.headers,
                                                     expectation.headers, matchType)
                      IN  ~(IF IsNot(expectation.headers) THEN matches ELSE ~matches)
             /\ IF expectation.body.kind # "absent"
                THEN matchBody(request.body, expectation.body, matchType)
                ELSE ~(/\ matchType = MatchType.STRICT
                       /\ request.body # Undefined
                       /\ "content-type" \in DOMAIN request.headers
                       /\ includesString(request.headers["content-type"], AppJson))

ApiResource7Path == ApiResourcePath \o <<"/", "7">>
Secret == <<"s", "3">>

\* requests for the path of the expectations and for a path that holds it,
\* with and without a query, a header beyond those expected, and a body
MatchRequests ==
    [method : {GET},
     path : {ApiResourcePath, ApiResource7Path},
     query : {EmptyMap, ("page" :> <<"1">>), ("page" :> <<"1">> @@ "sort" :> <<"a">>)},
     headers : {("x-api-key" :> Secret),
                ("x-api-key" :> Secret @@ "x-extra" :> <<"1">>),
                ("content-type" :> AppJson)},
     body : {Undefined, <<"b">>}]

FieldMatchers(value) ==
    {Absent @@ [value |-> Undefined, not |-> FALSE],
     [kind |-> "string", value |-> value, not |-> FALSE],
     [kind |-> "object", value |-> value, not |-> TRUE]}

MultiValueMatchers(object) == {Absent, object, object @@ ("not" :> TRUE)}

BodyMatchers ==
    {Absent @@ [type |-> "string", value |-> Undefined, not |-> FALSE],
     [kind |-> "object", type |-> "string", value |-> <<"b">>, not |-> FALSE],
     [kind |-> "object", type |-> "string", value |-> <<"b">>, not |-> TRUE]}

\* expectations for GET /api/resource, each field matcher absent, plain or
\* with not: true
MatchExpectations ==
    [action : {"httpResponse", "httpForward"},
     matchType : {"", MatchType.STRICT, MatchType.ONLY_MATCHING_FIELDS},
     method : FieldMatchers(GET),
     path : FieldMatchers(ApiResourcePath),
     query : MultiValueMatchers(("page" :> <<"1">>)),
     headers : MultiValueMatchers(("x-api-key" :> Secret)),
     body : BodyMatchers]

\* matchesExpectation(request, expectation) returns
matchesExpectationReturns ==
    /\ matcherCall.phase = "called"
    /\ matcherCall' =
          [matcherCall EXCEPT
              !.phase = "returned",
              !.result = matchesExpectationFields(matcherCall.request,
                                                  matcherCall.expectation)]
    /\ UNCHANGED <<expectations, methodIndex, pathIndex, wildcardExpectations,
                   persistenceEnabled, file, pending, clearing, lastOp, lastRequest,
                   found, response, history, lock, watcher, tasks,
                   requestHistory, requestResponseHistory>>

\* a call of matchesExpectation on a request and an expectation
InitMatch ==
    /\ InitStore
    /\ persistenceEnabled = FALSE
    /\ history = NoHistory
    /\ lock = <<>>
    /\ watcher = NoWatcher
    /\ tasks = <<>>
    /\ matcherCall \in [phase : {"called"}, request : MatchRequests,
                        expectation : MatchExpectations, result : {FALSE}]
    /\ requestHistory = <<>>
    /\ requestResponseHistory = <<>>

NextMatch == matchesExpectationReturns

SpecMatch == InitMatch /\ [][NextMatch]_vars

-----------------------------------------------------------------------------
(* Properties *)

Find(request) == findMatchingExpectation(request, expectations, Indices)

MatchingIds(request) ==
    {id \in DOMAIN expectations : matchesExpectation(request, expectations[id])}

\* a stored document as PUT admits it, with path "/api/users/*" and a canned response
IsUsersWildcardResponse(e) ==
    validateExpectation(e) /\ e.path = UsersWildcardPath /\ e.action = "httpResponse"

\* C1: once PUT has admitted an expectation with path "/api/users/*" and a
\* canned response of status 200, and while it is stored, GET /api/users/42 is
\* answered 200 from such an expectation and GET /other/42 gets the 404 default.
C1_WildcardScenario ==
    (/\ lastOp = "request"
     /\ lastRequest.method = GET
     /\ \E id \in DOMAIN expectations : IsUsersWildcardResponse(expectations[id]))
    => /\ lastRequest.path = Users42Path =>
             /\ response.status = Ok
             /\ response.from \in DOMAIN expectations
             /\ expectations[response.from].path = UsersWildcardPath
             /\ expectations[response.from].action = "httpResponse"
       /\ lastRequest.path = Other42Path =>
             (response.status = NotFound /\ response.from = NoId)

\* C2: find(r) returns an expectation exactly when some stored expectation
\* satisfies matchesExpectation for r.
C2_FindComplete ==
    \A request \in Requests : (Find(request) # NoId) <=> (MatchingIds(request) # {})

\* C3: an expectation returned by find(r) is in the store and matches r.
C3_FindSound ==
    /\ \A request \in Requests :
          Find(request) # NoId =>
              /\ Find(request) \in DOMAIN expectations
              /\ matchesExpectation(request, expectations[Find(request)])
    /\ (lastOp = "find" /\ found # NoId) =>
          /\ found \in DOMAIN expectations
          /\ matchesExpectation(lastRequest, expectations[found])

\* find returned an expectation while the store holds one that does not match
C3_Witness ==
    /\ lastOp = "find"
    /\ found # NoId
    /\ \E id \in DOMAIN expectations : ~matchesExpectation(lastRequest, expectations[id])

\* C4: when a and b both match r and a has the higher priority, find(r)
\* returns neither b nor anything of lower priority than a.
C4_PriorityMonotone ==
    \A request \in Requests : \A a, b \in MatchingIds(request) :
        PriorityOf(expectations[a]) > PriorityOf(expectations[b])
        => /\ Find(request) # NoId
           /\ Find(request) # b
           /\ PriorityOf(expectations[Find(request)]) >= PriorityOf(expectations[a])

\* C5: among the matching expectations of highest priority, find(r) returns
\* the one with the greatest id.
C5_TieBreakGreatestId ==
    \A request \in Requests :
        LET matching == MatchingIds(request)
            top == {a \in matching :
                      \A b \in matching :
                          PriorityOf(expectations[a]) >= PriorityOf(expectations[b])}
        IN  matching # {} =>
                /\ Find(request) \in top
                /\ \A a \in top : localeCompare(Find(request), a) >= 0

\* C6: every stored expectation is in the method bucket of its method, when it
\* has one, and in the path bucket of its first path segment or the wildcard set.
C6_StoreIndexed ==
    \A id \in DOMAIN expectations :
        LET e == expectations[id]
            base == getBasePathSegment(e.path)
        IN  /\ e.method # Undefined =>
                  (e.method \in DOMAIN methodIndex /\ id \in methodIndex[e.method])
            /\ \/ id \in wildcardExpectations
               \/ (base \in DOMAIN pathIndex /\ id \in pathIndex[base])

\* C7: no method bucket, path bucket or wildcard set holds an id that is absent
\* from the store.
C7_NoDanglingIndex ==
    /\ \A k \in DOMAIN methodIndex : methodIndex[k] \subseteq DOMAIN expectations
    /\ \A k \in DOMAIN pathIndex : pathIndex[k] \subseteq DOMAIN expectations
    /\ wildcardExpectations \subseteq DOMAIN expectations

\* an id was taken out of a bucket that still exists, others are still indexed
C7_Witness ==
    /\ lastOp \in {"remove", "upsert", "clearByRequest"}
    /\ \E k \in DOMAIN methodIndex : methodIndex[k] = {}
    /\ wildcardExpectations # {}

\* the uuids free for a store holding exps
FreshFor(exps) == UuidPool \ (DOMAIN exps)

\* C8: applying upsert(e) twice leaves the store equal to applying it once.
C8_UpsertIdempotent ==
    \A e \in UpsertInputs :
        \A u1 \in (IF e.id \in DOMAIN expectations THEN {NoId} ELSE FreshFor(expectations)) :
            LET once == UpsertResult(expectations, Indices, e, u1)
            IN  \A u2 \in (IF e.id \in DOMAIN once.exps THEN {NoId} ELSE FreshFor(once.exps)) :
                    UpsertResult(once.exps, once.idx, e, u2).exps = once.exps

\* C9: after clear() with no filter the list is empty, every method bucket and
\* path bucket is empty, the wildcard set is empty and find returns nothing.
C9_ClearAll ==
    lastOp = "clear"
    => /\ DOMAIN expectations = {}
       /\ \A k \in DOMAIN methodIndex : methodIndex[k] = {}
       /\ \A k \in DOMAIN pathIndex : pathIndex[k] = {}
       /\ wildcardExpectations = {}
       /\ \A request \in Requests : Find(request) = NoId

\* the file still holds what the store held when clear() was called
C9_Witness == lastOp = "clear" /\ file # <<>>

\* C10: once every call has returned, the persistence file holds exactly the
\* expectations of the in-memory store.
C10_FileEqualsStore ==
    (pending = <<>> /\ clearing = {}) => file \in JsonArrays(expectations)

C12_BadRequestLeavesStore ==
    [][(lastOp' = "put" /\ response'.status = BadRequest)
          => UNCHANGED <<expectations, methodIndex, pathIndex,
                         wildcardExpectations, file>>]_vars

\* C14: an expectation upserted with a client-chosen id that is not in the
\* store is stored under exactly that id.
C14_ClientIdKept ==
    [][\A e \in UpsertInputs :
          (e.id # NoId /\ e.id \notin DOMAIN expectations /\ upsertExpectation(e))
          => /\ e.id \in DOMAIN expectations'
             /\ expectations'[e.id] = Stored(e, DefaultedPriority(e))]_vars

\* id is in the method bucket of e's method, when e has one, and in the
\* wildcard set or the path bucket of e's path, when e has one
IndexedAs(idx, id, e) ==
    /\ e.method # Undefined =>
          (e.method \in DOMAIN idx.m /\ id \in idx.m[e.method])
    /\ e.path # Undefined =>
          IF includes(e.path, "*") THEN id \in idx.w
          ELSE /\ getBasePathSegment(e.path) \in DOMAIN idx.p
               /\ id \in idx.p[getBasePathSegment(e.path)]

\* id is in no bucket other than those of e
IndexedOnlyAs(idx, id, e) ==
    /\ \A k \in DOMAIN idx.m : id \in idx.m[k] => k = e.method
    /\ \A k \in DOMAIN idx.p :
          id \in idx.p[k] =>
              (e.path # Undefined /\ ~includes(e.path, "*")
                 /\ k = getBasePathSegment(e.path))
    /\ id \in idx.w => (e.path # Undefined /\ includes(e.path, "*"))

\* C15: upsert(e) with e.id in the store keeps the number of stored
\* expectations, puts the new document under e.id, and in the same step takes
\* the id out of the buckets of the old matcher and into those of the new one.
C15_UpsertReplaces ==
    [][\A e \in UpsertInputs :
          (e.id \in DOMAIN expectations /\ upsertExpectation(e))
          => /\ DOMAIN expectations' = DOMAIN expectations
             /\ expectations'[e.id] = Stored(e, DefaultedPriority(e))
             /\ IndexedAs(Indices', e.id, expectations'[e.id])
             /\ IndexedOnlyAs(Indices', e.id, expectations'[e.id])]_vars

\* C16: delete(id) for an id that is not in the store returns false and leaves
\* the store, every index bucket and the persistence file unchanged, and
\* starts no write.
C16_DeleteUnknown ==
    [][\A id \in UuidPool :
          (id \notin DOMAIN expectations /\ removeExpectation(id))
          => /\ lastOp' = "removeMissing"
             /\ UNCHANGED <<expectations, methodIndex, pathIndex,
                            wildcardExpectations, file, pending>>]_vars

\* delete returned false on a store that holds indexed expectations
C16_Witness ==
    /\ lastOp = "removeMissing"
    /\ DOMAIN expectations # {}
    /\ wildcardExpectations # {}

\* id is in no method bucket, no path bucket and not in the wildcard set
InNoBucket(idx, id) ==
    /\ \A k \in DOMAIN idx.m : id \notin idx.m[k]
    /\ \A k \in DOMAIN idx.p : id \notin idx.p[k]
    /\ id \notin idx.w

\* C18: in every state a find can observe, also while an add awaits its save,
\* an id is either in neither the map nor any index bucket, or in the map and
\* in all of its index buckets.
C18_FindSeesPreOrPost ==
    \A id \in UuidPool :
        IF id \in DOMAIN expectations
        THEN IndexedAs(Indices, id, expectations[id])
        ELSE InNoBucket(Indices, id)

\* an id no client names and no recorded call drew, for a uuidv4() that only
\* the sequential order calls
ReplayUuid(exps) ==
    CHOOSE x \in (MaxStore + 2) .. (MaxStore + 2 + MaxCalls) : x \notin DOMAIN exps

\* the store and index after one call applied on its own, from start to return
ApplyCall(st, c) ==
    CASE c.op = "add" ->
            LET newExpectation == Stored(c.e, DefaultedPriority(c.e))
            IN  [exps |-> MapSet(st.exps, c.uuid, newExpectation),
                 idx |-> indexExpectation(st.idx, c.uuid, newExpectation)]
      [] c.op = "upsert" ->
            LET uuid == IF c.uuid # NoId THEN c.uuid ELSE ReplayUuid(st.exps)
                r == UpsertResult(st.exps, st.idx, c.e, uuid)
            IN  [exps |-> r.exps, idx |-> r.idx]
      [] c.op = "remove" ->
            LET r == RemoveResult(st.exps, st.idx, c.id)
            IN  [exps |-> r.exps, idx |-> r.idx]
      [] c.op = "clear" ->
            [exps |-> EmptyMap, idx |-> initializeIndices(EmptyMap)]
      [] c.op = "clearByRequest" ->
            RemoveAll(st.exps, st.idx, ToRemove(st.exps, c.req))

RECURSIVE Replay(_, _)
Replay(st, calls) ==
    IF calls = <<>> THEN st ELSE Replay(ApplyCall(st, Head(calls)), Tail(calls))

\* the buckets that hold an id
NonEmpty(map) == [k \in {x \in DOMAIN map : map[x] # {}} |-> map[k]]

\* the store and what the index holds
Observed(st) ==
    [exps |-> st.exps, m |-> NonEmpty(st.idx.m), p |-> NonEmpty(st.idx.p), w |-> st.idx.w]

\* the results of applying the recorded calls one after another, in every order
SerialOutcomes ==
    LET n == Len(history.calls)
    IN  {Observed(Replay(history.base, [i \in 1 .. n |-> history.calls[f[i]]])) :
            f \in Permutations(1 .. n)}

\* C17: once every recorded call has returned, the store and the index are
\* what applying the same calls one after another gives, in some order.
C17_Serialisable ==
    (history.on /\ pending = <<>> /\ clearing = {})
    => Observed([exps |-> expectations, idx |-> Indices]) \in SerialOutcomes

\* C13: add(e) with an id that is already in the store completes (it stores e
\* under a fresh id and returns it).
C13_AddOnStoredIdCompletes ==
    (\E i \in 1 .. Len(lock) : lock[i].state = "inner")
        ~> (\A i \in 1 .. Len(lock) : lock[i].state # "inner")

\* C19: after initialize() reads a file whose array holds documents sharing an
\* id, the store holds as many expectations as the array has documents, the
\* first occurrence of an id under that id.
C19_DuplicatesKept ==
    lastOp = "initializeLocked"
    => /\ Cardinality(DOMAIN expectations) = Len(file)
       /\ \A i \in 1 .. Len(file) :
             (\A j \in 1 .. (i - 1) : file[j].id # file[i].id)
             => /\ file[i].id \in DOMAIN expectations
                /\ expectations[file[i].id] = file[i].doc

\* C20: when startup has completed, every expectation of the initialization
\* file that passes validation is in the store and every one that fails it is
\* absent, whether or not persistence is enabled.
C20_InitFileLoaded ==
    [][\A initFile \in InitializationFiles :
          startServer(initFile)
          => \A i \in 1 .. Len(initFile) :
                validateExpectation(initFile[i])
                <=> \E id \in DOMAIN expectations' :
                       expectations'[id]
                         = Stored(initFile[i], DefaultedPriority(initFile[i]))]_vars

\* what the store holds once the reload in progress has gone through
AfterReload ==
    IF watcher.phase = "rollback" THEN DocsOf(watcher.lastContent.docs)
    ELSE DocsOf(ValidOf(watcher.content.docs))

\* C21: a find made while the watcher reloads a changed initialization file
\* sees the complete set of before the reload or the complete set of after
\* it, never an empty or partly re-inserted store.
C21_FindDuringReload ==
    (lastOp = "find" /\ watcher.phase \in {"read", "reload", "rollback"})
    => DocsIn(expectations) \in {watcher.before, AfterReload}

\* the changed file fails to reload: it does not parse, is not an array, or
\* holds an expectation that fails validation
ReloadFails ==
    \/ watcher.content.kind # "array"
    \/ ValidOf(watcher.content.docs) # watcher.content.docs

\* C22: after a reload that fails at any step the store holds the
\* expectation set of before the change, and the watcher goes on watching.
C22_FailedReloadRollsBack ==
    (lastOp = "reloaded" /\ ReloadFails)
    => /\ DocsIn(expectations) = watcher.before
       /\ watcher.phase = "idle"

\* C28: every expectation in the store has exactly one action kind, whether
\* a PUT, the initialization file, a reload or a rollback admitted it.
C28_OneActionKind ==
    \A id \in DOMAIN expectations : expectations[id].action \in Actions

\* the store holds expectations that a PUT and a finished reload admitted
C28_Witness ==
    /\ lastOp = "put"
    /\ response.status = Created
    /\ watcher.phase = "idle"
    /\ watcher.content.docs # <<>>
    /\ Cardinality(DOMAIN expectations) = MaxStore

\* C23: for a request that no stored expectation matches the handler calls
\* next() exactly once and writes no status, header or body itself.
C23_NoMatchCallsNext ==
    [][\A request \in ClientRequests :
          (/\ requestArrives(request)
           /\ \A id \in DOMAIN expectations :
                 ~matchesExpectation(request, expectations[id]))
          => LET t == tasks'[Len(tasks')]
             IN  /\ t.next = 1
                 /\ t.by # "handler"
                 /\ t.phase = "done"
                 /\ ~t.headers]_vars

\* a request reached next() although the store holds expectations
C23_Witness ==
    /\ lastOp = "arrive"
    /\ tasks[Len(tasks)].next = 1
    /\ tasks[Len(tasks)].by = "default"
    /\ DOMAIN expectations # {}

\* method and path of the request match those of the document
MethodAndPathMatch(request, e) ==
    /\ e.method # Undefined =>
          (matchRegex(request.method, e.method) \/ matchString(request.method, e.method))
    /\ e.path # Undefined =>
          (matchRegex(request.path, e.path) \/ matchString(request.path, e.path))

\* C24: a request whose method and path match a stored expectation that has
\* neither a canned response nor a forward is answered with status 500; it is
\* not passed to the next handler and not left unanswered.
C24_NoActionIs500 ==
    [][\A request \in ClientRequests :
          (/\ requestArrives(request)
           /\ DOMAIN expectations # {}
           /\ \A id \in DOMAIN expectations :
                 /\ expectations[id].action = ""
                 /\ MethodAndPathMatch(request, expectations[id]))
          => LET t == tasks'[Len(tasks')]
             IN  /\ t.status = InternalServerError
                 /\ t.next = 0]_vars

\* C25: when the upstream request of a forward fails with a connect or I/O
\* error the client gets status 502, and no upstream status or header.
C25_UpstreamFailureIs502 ==
    \A i \in 1 .. Len(tasks) :
        tasks[i].upstream \in {"error", "aborted"}
        => /\ tasks[i].status = BadGateway
           /\ ~tasks[i].headers

\* C26: for an action with a delay of d > 0 milliseconds nothing is written
\* to the client, and no upstream request is issued, before a sleep of d has
\* completed.
C26_NothingBeforeDelay ==
    \A i \in 1 .. Len(tasks) :
        LET d == calculateDelay(tasks[i].delay)
        IN  d > 0 =>
              /\ (tasks[i].status # 0 \/ tasks[i].upstream # "none")
                    => tasks[i].slept >= d
              /\ tasks[i].phase = "sleeping"
                    => (tasks[i].status = 0 /\ ~tasks[i].headers)

\* a request that arrived later was answered while an exchange is asleep
C26_Witness ==
    \E i, j \in 1 .. Len(tasks) :
        /\ i < j
        /\ tasks[i].phase = "sleeping"
        /\ tasks[i].remaining > 0
        /\ tasks[j].phase = "done"
        /\ tasks[j].status = Ok
        /\ calculateDelay(tasks[j].delay) > 0

\* C27: every stored expectation has a priority, after any sequence of
\* initialize, add and upsert, also when it was loaded from the persistence
\* file.
C27_PriorityPresent ==
    \A id \in DOMAIN expectations : expectations[id].priority # Undefined

\* C29: find does not mutate: after find(r) returns, with or without a
\* result, the store map, every stored document and every index bucket are
\* what they were before the call.
C29_FindLeavesStore ==
    [][\A request \in DataRequests :
          findExpectationForRequest(request)
          => UNCHANGED <<expectations, methodIndex, pathIndex, wildcardExpectations>>]_vars

\* a find returned an expectation from a full store holding a document that
\* was loaded without a priority
C29_Witness ==
    /\ lastOp = "find"
    /\ found # NoId
    /\ Cardinality(DOMAIN expectations) = MaxStore
    /\ \E id \in DOMAIN expectations : expectations[id].priority = Undefined

\* C30: when a save fails the store and the index keep the mutation, and the
\* next save writes the full current store.
C30_SaveFailureKeepsStore ==
    [][/\ \A i \in 1 .. MaxPending :
             writeFileFails(i)
             => UNCHANGED <<expectations, methodIndex, pathIndex, wildcardExpectations>>
       /\ (lastOp = "saveFailed" /\ Len(pending') > Len(pending))
             => pending'[Len(pending')].snap \in JsonArrays(expectations')]_vars

\* a save has failed: the store holds what the file does not, and a later
\* save is in flight
C30_Witness ==
    /\ lastOp \in {"add", "upsert"}
    /\ Len(pending) = 1
    /\ pending[1].snap \in JsonArrays(expectations)
    /\ Len(pending[1].snap) = MaxStore
    /\ LoadFrom(EmptyMap, file) = EmptyMap

\* C31: when at least one expectation matching request r has a canned
\* response, find(r) returns a canned-response expectation; a forward
\* expectation is returned only when no matching expectation has a canned
\* response.
C31_ResponsePreferred ==
    \A request \in Requests :
        LET canned == {id \in DOMAIN expectations :
                          /\ expectations[id].action \in {"httpResponse", Both}
                          /\ matchesExpectation(request, expectations[id])}
            r == findMatchingExpectation(request, expectations, Indices)
        IN  canned # {} => r \in canned

\* the bucket of an index under a key, empty when the index has no such key
BucketOf(index, key) == IF key \in DOMAIN index THEN index[key] ELSE {}

\* the step took exactly the ids of removed out of the store and out of every
\* index bucket, and left every other expectation and index entry as it was
RemovedExactly(removed) ==
    /\ expectations' = [id \in (DOMAIN expectations) \ removed |-> expectations[id]]
    /\ \A k \in (DOMAIN methodIndex) \cup (DOMAIN methodIndex') :
          BucketOf(methodIndex', k) = BucketOf(methodIndex, k) \ removed
    /\ \A k \in (DOMAIN pathIndex) \cup (DOMAIN pathIndex') :
          BucketOf(pathIndex', k) = BucketOf(pathIndex, k) \ removed
    /\ wildcardExpectations' = wildcardExpectations \ removed

StrippedPlusHost(headers, host) ==
    LET stripped == {"host", "connection", "content-length", "x-forwarded-for",
                     "x-forwarded-host", "x-forwarded-port", "x-forwarded-proto",
                     "x-forwarded-server", "x-real-ip"}
    IN  [k \in ((DOMAIN headers) \ stripped) \cup {"host"} |->
            IF k = "host" THEN host ELSE headers[k]]

\* C33: the upstream request of a forward carries exactly the client's
\* headers minus the stripped hop-by-hop and proxy headers, plus a host header
\* equal to the target host; no other header is added and no forwarded header
\* value differs from what the client sent.
C33_UpstreamHeaders ==
    \A i \in 1 .. Len(tasks) :
        tasks[i].upstream # "none"
        => \A sent \in UpstreamHeaders(tasks[i]) :
              sent = StrippedPlusHost(tasks[i].request.headers, TargetHost)

\* the keys a query or headers matcher expects
ExpectedKeys(object) == IF object = Absent THEN {} ELSE (DOMAIN object) \ {"not"}

\* the standard headers that a STRICT match leaves out of the comparison
StandardHeaders ==
    {"host", "connection", "content-length", "user-agent", "accept", "accept-encoding",
     "content-type"}

\* the request without the query parameters and headers the expectation does
\* not name
OnlyExpectedKeys(request, expectation) ==
    [request EXCEPT
        !.query = [k \in (DOMAIN request.query) \cap ExpectedKeys(expectation.query)
                      |-> request.query[k]],
        !.headers = [k \in (DOMAIN request.headers) \cap ExpectedKeys(expectation.headers)
                        |-> request.headers[k]]]

\* C34: for an expectation with match type STRICT a request matches only if
\* its header keys, the standard headers left out, are those of the headers
\* matcher, and its query keys those of the query matcher; with
\* ONLY_MATCHING_FIELDS request keys beyond the expected ones never prevent a
\* match.
C34_StrictKeySets ==
    LET request == matcherCall.request
        expectation == matcherCall.expectation
    IN  (/\ matcherCall.phase = "returned"
         /\ expectation.query = Absent \/ ~IsNot(expectation.query)
         /\ expectation.headers = Absent \/ ~IsNot(expectation.headers))
        => /\ (expectation.matchType = MatchType.STRICT /\ matcherCall.result)
                 => /\ (DOMAIN request.headers) \ StandardHeaders
                          = ExpectedKeys(expectation.headers) \ StandardHeaders
                    /\ DOMAIN request.query = ExpectedKeys(expectation.query)
           /\ (/\ expectation.matchType = MatchType.ONLY_MATCHING_FIELDS
               /\ matchesExpectationFields(OnlyExpectedKeys(request, expectation),
                                           expectation))
                 => matcherCall.result

\* the expectation with the not flag of its matcher of field f taken away
WithoutNot(expectation, f) ==
    IF f \in {"query", "headers"}
    THEN [expectation EXCEPT
             ![f] = [k \in (DOMAIN expectation[f]) \ {"not"} |-> expectation[f][k]]]
    ELSE [expectation EXCEPT ![f] = [@ EXCEPT !.not = FALSE]]

\* the expectation with no matcher of field f
WithoutField(expectation, f) ==
    IF f \in {"query", "headers"} THEN [expectation EXCEPT ![f] = Absent]
    ELSE [expectation EXCEPT ![f] = [@ EXCEPT !.kind = "absent"]]

\* the matcher of field f is there and carries not: true
CarriesNot(expectation, f) ==
    IF f \in {"query", "headers"}
    THEN expectation[f] # Absent /\ IsNot(expectation[f])
    ELSE expectation[f].kind # "absent" /\ expectation[f].not

\* C35: a field matcher (method, path, query, headers, body) that carries
\* not: true matches exactly when the same matcher without not would not
\* match, for every request; seen on the requests that the rest of the
\* expectation accepts, where the field decides.
C35_NotInverts ==
    LET request == matcherCall.request
        expectation == matcherCall.expectation
    IN  \A f \in {"method", "path", "query", "headers", "body"} :
           (/\ matcherCall.phase = "returned"
            /\ CarriesNot(expectation, f)
            /\ matchesExpectationFields(request, WithoutField(expectation, f)))
           => matcherCall.result
                 = ~matchesExpectationFields(request, WithoutNot(expectation, f))

\* C37: an expectation whose path is a literal string (no "*", not in regex
\* form) matches a request only when the request path is equal to that
\* string; a request path that holds the literal as a substring does not.
C37_LiteralPathIsExact ==
    LET request == matcherCall.request
        expectation == matcherCall.expectation
    IN  (/\ matcherCall.phase = "returned"
         /\ expectation.path.kind = "string"
         /\ ~includes(expectation.path.value, "*")
         /\ matcherCall.result)
        => request.path = expectation.path.value

\* C36: for every request handled by the data-plane request handler at most
\* one response is written: status and body are sent at most once, and next()
\* is not called after a response was written, also when sending the canned
\* or forwarded response throws.
C36_WritesOnce ==
    \A i \in 1 .. Len(tasks) :
        /\ tasks[i].writes <= 1
        /\ tasks[i].next > 0 => tasks[i].writes = 0

\* the server was started on no persistence file with initFile as its
\* initialization file, and the save of the start is in the persistence file
FirstStartOf(initFile) ==
    /\ lastOp = "start"
    /\ pending = <<>>
    /\ file \in JsonArrays(expectations)
    /\ DocsIn(expectations) = DocsOf(ValidOf(initFile))

\* C38: starting the server a second time with the same persistence file and
\* the same initialization file completes startup and leaves the store with
\* the same set of expectations as after the first start: the expectations
\* of the initialization file are not duplicated across restarts.
C38_RestartKeepsStore ==
    [][\A initFile \in InitializationFiles :
          (FirstStartOf(initFile) /\ startServer(initFile))
          => DocsIn(expectations') = DocsIn(expectations)]_vars

\* the list holds the entries of the most recent recordings, at most
\* HistoryLimit of them, in the order of their recording
MostRecent(list) ==
    /\ Len(list) <= HistoryLimit
    /\ \A i \in 1 .. Len(list) - 1 : list[i + 1] = list[i] + 1
    /\ list # <<>> =>
          list[1] = IF list[Len(list)] > HistoryLimit
                    THEN list[Len(list)] - HistoryLimit + 1 ELSE 1

\* C39: after any sequence of recorded requests and recorded
\* request/response pairs each history list holds at most 100 entries, the
\* most recently recorded ones in arrival order: the oldest is dropped first.
C39_HistoryBounded == MostRecent(requestHistory) /\ MostRecent(requestResponseHistory)

\* both lists are full and have dropped their oldest entries
C39_Witness ==
    /\ Len(requestHistory) = HistoryLimit
    /\ requestHistory[1] > 1
    /\ Len(requestResponseHistory) = HistoryLimit
    /\ requestResponseHistory[1] > 1

====
